---------------------------- MODULE Spec2Model ----------------------------
(***************************************************************************)
(* A model of the recursive directory walker of the walkdir crate.         *)
(*                                                                         *)
(*   - the traversal driver IntoIter (src/src/walk.rs): next, push, pop,    *)
(*     handle_entry, get_deferred_dir, follow, check_loop, skippable,       *)
(*     skip_current_dir;                                                    *)
(*   - the per-directory state DirState and its content loader DirContent   *)
(*     (src/src/dir.rs);                                                    *)
(*   - the source of raw entries ReadDir (src/src/walk/rawdent.rs).         *)
(*                                                                         *)
(* The driver's stack is written self.stack, self.stack_list and            *)
(* self.states in walk.rs, and the ancestor stack self.stack_path and       *)
(* self.states_path: the model calls them states and states_path.  The      *)
(* driver's call `stack.last_mut().next()` is DirState::next_position       *)
(* followed by DirState::get_current_position.                              *)
(*                                                                         *)
(* The file system is a collaborator: a finite table of nodes.              *)
(***************************************************************************)
EXTENDS Integers, Sequences, FiniteSets, TLC

(***************************************************************************)
(* Bounds of the model.                                                     *)
(***************************************************************************)
\* number of skip_current_dir calls in one behaviour
MaxSkips == 2
\* max_open is chosen in 1..MaxOpenChoice
MaxOpenChoice == 2
\* min_depth and max_depth are chosen in 0..MaxDepthChoice, or left at default
MaxDepthChoice == 2

(***************************************************************************)
(* Program constants.                                                       *)
(***************************************************************************)
\* WalkDirOptions::default().max_open
DefaultMaxOpen == 10
\* usize::MAX, the default max_depth: larger than every depth of the model
UsizeMax == 1000
\* Option::None for the optional numbers (current_pos, root_device)
None == -1

(***************************************************************************)
(* The file system (the backend collaborator).                              *)
(* A node is a directory (with its children in backend order), a file or a  *)
(* symbolic link (with its target node); dev is its device number.          *)
(* Node 1 is the root path handed to WalkDir::new.                          *)
(***************************************************************************)
D(kids) == [kind |-> "dir", kids |-> kids, target |-> 0, dev |-> 0, fails |-> "none"]
F == [kind |-> "file", kids |-> <<>>, target |-> 0, dev |-> 0, fails |-> "none"]
L(t) == [kind |-> "link", kids |-> <<>>, target |-> t, dev |-> 0, fails |-> "none"]
OnDev(n, d) == [n EXCEPT !.dev = d]
\* a directory the backend refuses to open: read_dir fails on it
Denied(kids) == [D(kids) EXCEPT !.fails = "read_dir"]
\* an entry the backend cannot stat: its file type cannot be read
Bad == [F EXCEPT !.fails = "stat"]

\* foo/{abc/{qrs,tuv},def}
FsFoo == << D(<<2, 5>>), D(<<3, 4>>), F, F, F >>
\* three levels deep with siblings at each level
FsDeep == << D(<<2, 6, 7>>), D(<<3, 5>>), D(<<4>>), F, F, F, D(<<8>>), F >>
\* a/{link -> a, f}
FsLoop == << D(<<2, 3>>), L(1), F >>
\* r/{a/{b/{l2 -> a, x}}, l -> a}
FsLinks == << D(<<2, 5>>), D(<<3>>), D(<<4, 6>>), L(2), L(2), F >>
\* r/{m/{y}, f} where m is a mount point of another device
FsMount == << D(<<2, 4>>), OnDev(D(<<3>>), 1), OnDev(F, 1), F >>
\* the root is a symbolic link to a directory: r -> t, t/{e/{g}, f}
FsRootLink == << L(2), D(<<3, 5>>), D(<<4>>), F, F >>
\* the root is a file
FsFile == << F >>

FileSystems == << FsFoo, FsDeep, FsLoop, FsLinks, FsMount, FsRootLink, FsFile >>

\* r/{x, a/{y}, f} where x cannot be stat-ed
FsBadChild == << D(<<2, 3, 5>>), Bad, D(<<4>>), F, F >>
\* r/{n/{z}, a/{y}, f} where n cannot be opened
FsDenied == << D(<<2, 4, 6>>), Denied(<<3>>), F, D(<<5>>), F, F >>
\* r/{a/{x, n/{z}, g}, f} where x cannot be stat-ed and n cannot be opened
FsDeepFault == << D(<<2, 7>>), D(<<3, 4, 6>>), Bad, Denied(<<5>>), F, F, F >>
\* the root cannot be stat-ed
FsBadRoot == << Bad >>
\* the root is a directory that cannot be opened: r/{z}
FsDeniedRoot == << Denied(<<2>>), F >>

\* r/{x, a/{y}, z, f, w} where x, z and w cannot be stat-ed
FsBadChildren == << D(<<2, 3, 5, 6, 7>>), Bad, D(<<4>>), F, Bad, F, Bad >>

FaultyFileSystems ==
    << FsBadChild, FsDenied, FsDeepFault, FsBadRoot, FsDeniedRoot, FsBadChildren >>

\* r/{m/{y}, k -> y, j -> m, f} where m is a mount point of another device
FsMountLinks ==
    << D(<<2, 4, 5, 6>>), OnDev(D(<<3>>), 1), OnDev(F, 1), L(3), L(2), F >>
\* r/{a/{m/{y}, g}, f} where a/m is a mount point of another device
FsMountDeep ==
    << D(<<2, 6>>), D(<<3, 5>>), OnDev(D(<<4>>), 1), OnDev(F, 1), F, F >>

MountFileSystems == << FsMount, FsMountLinks, FsMountDeep >>

\* r/{f, d/{g}}, and the same tree listed by the backend as r/{d/{g}, f}
FsScenario == << D(<<2, 3>>), F, D(<<4>>), F >>
FsScenarioDirFirst == << D(<<3, 2>>), F, D(<<4>>), F >>

ScenarioFileSystems == << FsScenario, FsScenarioDirFirst >>

AllFileSystems ==
    FileSystems \o FaultyFileSystems \o MountFileSystems \o ScenarioFileSystems

VARIABLES
    fsys,       \* index of the file system walked
    it,         \* the IntoIter
    ref,        \* the same walk with the default max_open, driven by the same calls
    out,        \* the items the pulls of it returned, in order
    rout,       \* the items the pulls of ref returned, in order
    last,       \* what the last call was and returned
    done,       \* a pull has returned None
    skips,      \* the calls of skip_current_dir so far, each with the item before it
    nskips,     \* number of skip_current_dir calls
    pred,       \* the predicate given to filter_entry, if any
    fe,         \* the FilterEntry over the position stream, if any
    cfe         \* the ClassicFilterEntry, if any

vars == << fsys, it, ref, out, rout, last, done, skips, nskips, pred, fe, cfe >>

Node(n) == AllFileSystems[fsys][n]

Last(s) == s[Len(s)]
Front(s) == SubSeq(s, 1, Len(s) - 1)
Min(a, b) == IF a < b THEN a ELSE b

(***************************************************************************)
(* Option and Result values.                                                *)
(***************************************************************************)
NoneV == [some |-> FALSE]
Some(v) == [some |-> TRUE, v |-> v]
Ok(v) == [ok |-> TRUE, v |-> v]
Err(e) == [ok |-> FALSE, e |-> e]

(***************************************************************************)
(* The backend.  A path is the sequence of nodes from the root; a symbolic  *)
(* link of the model points at a node that is not a link.                   *)
(***************************************************************************)
Resolve(n) == IF Node(n).kind = "link" THEN Node(n).target ELSE n

\* fs::symlink_metadata / fs::metadata: the file type of a path
symlink_metadata(path) == Node(Last(path)).kind
metadata(path) == Node(Resolve(Last(path))).kind
\* same_file::Handle::from_path: the identity of the file a path leads to
get_handle(path) == Resolve(Last(path))
\* md.dev() of path.metadata()
device_num(path) == Node(Resolve(Last(path))).dev
\* fs::read_dir: the stream of the children of a directory, in backend
\* order, or the error of a directory that cannot be opened
fs_read_dir(path) == [dir |-> path, rest |-> Node(Resolve(Last(path))).kids]
read_dir_result(path) ==
    IF Node(Resolve(Last(path))).fails = "read_dir"
    THEN Err([kind |-> "io", child |-> path])
    ELSE Ok(fs_read_dir(path))

(***************************************************************************)
(* DirEntry: the path, the file type (of the link target once followed)     *)
(* and follow_link.  Its depth is the length of its path below the root.    *)
(***************************************************************************)
Depth(dent) == Len(dent.path) - 1

from_path(path, follow) ==
    [path |-> path,
     ty |-> IF follow THEN metadata(path) ELSE symlink_metadata(path),
     follow_link |-> follow]

\* A from_fsdent that takes the file type of every entry as readable
from_fsdent_unchecked(dir, n) ==
    Ok([path |-> Append(dir, n), ty |-> Node(n).kind, follow_link |-> FALSE])

from_fsdent(dir, n) ==
    IF Node(n).fails = "stat"
    THEN Err([kind |-> "io", child |-> Append(dir, n)])
    ELSE Ok([path |-> Append(dir, n), ty |-> Node(n).kind, follow_link |-> FALSE])

is_dir(dent) == dent.ty = "dir"
is_symlink(dent) == dent.ty = "link"

(***************************************************************************)
(* IntoIter::check_loop, follow, is_same_file_system, skippable.            *)
(* c is the IntoIter whose ancestors, depth and options are read.           *)
(***************************************************************************)
RECURSIVE check_loop_from(_, _, _)
check_loop_from(c, child, i) ==
    IF i = 0 THEN Ok(TRUE)
    ELSE IF c.states_path[i].handle = get_handle(child)
         THEN Err([kind |-> "loop", ancestor |-> c.states_path[i].path,
                   child |-> child, depth |-> c.depth])
         ELSE check_loop_from(c, child, i - 1)

\* A check_loop that passes over the innermost ancestor
check_loop_outer(c, child) ==
    check_loop_from(c, child,
                    IF c.states_path = <<>> THEN 0 ELSE Len(c.states_path) - 1)

check_loop(c, child) == check_loop_from(c, child, Len(c.states_path))

\* The part of follow after the entry of the target has been made
follow_checked(d, l) == IF is_dir(d) /\ ~l.ok THEN l ELSE Ok(d)

follow(c, dent) ==
    follow_checked(from_path(dent.path, TRUE), check_loop(c, dent.path))

is_same_file_system(c, dent) == c.root_device = device_num(dent.path)

skippable(c) == c.depth < c.opts.min_depth \/ c.depth > c.opts.max_depth

(***************************************************************************)
(* IntoIter::process_dent: the classification of a raw entry, run when its  *)
(* record is made.  Some(Ok(flat)), Some(Err(e)), or NoneV when the entry   *)
(* must be ignored.  It takes &self and so cannot push.                     *)
(***************************************************************************)
\* A process_followed that takes every directory, whatever its device
process_followed_crossing(c, f) ==
    IF ~f.ok THEN Some(Err(f.e))
    ELSE Some(Ok([raw |-> f.v, is_dir |-> ~is_symlink(f.v) /\ is_dir(f.v),
                  loop_link |-> None]))

\* The part of process_dent after the link has been followed (f is the
\* result of following, or the entry itself)
process_followed(c, f) ==
    IF ~f.ok THEN Some(Err(f.e))
    ELSE LET d == f.v
             is_normal_dir == ~is_symlink(d) /\ is_dir(d)
         IN  IF is_normal_dir /\ c.opts.same_file_system /\ Depth(d) > 0
                /\ ~is_same_file_system(c, d)
             THEN NoneV
             ELSE Some(Ok([raw |-> d, is_dir |-> is_normal_dir,
                           loop_link |-> None]))

process_dent(c, dent) ==
    process_followed(c, IF c.opts.follow_links /\ is_symlink(dent)
                        THEN follow(c, dent) ELSE Ok(dent))

(***************************************************************************)
(* ReadDir (walk/rawdent.rs): the source of the entries not yet consumed.   *)
(*   Once(item)  the single item of the root,                               *)
(*   Opened(rd)  an open backend stream,                                    *)
(*   Closed      nothing left,                                              *)
(*   Error(err)  the failure of opening, yielded once.                      *)
(***************************************************************************)
ReadDirOnce(item) == [kind |-> "Once", item |-> item]
ReadDirOpened(rd) == [kind |-> "Opened", rd |-> rd]
ReadDirClosed == [kind |-> "Closed"]
ReadDirError(err) == [kind |-> "Error", err |-> err]

\* A next that leaves the error of opening in the source
ReadDir_next_keeping_error(rd) ==
    CASE rd.kind = "Once" ->
            [rd |-> ReadDirOnce(NoneV),
             r |-> IF rd.item.some THEN Some(Ok(rd.item.v)) ELSE NoneV]
      [] rd.kind = "Opened" ->
            IF rd.rd.rest = <<>>
            THEN [rd |-> rd, r |-> NoneV]
            ELSE [rd |-> ReadDirOpened([rd.rd EXCEPT !.rest = Tail(@)]),
                  r |-> Some(from_fsdent(rd.rd.dir, Head(rd.rd.rest)))]
      [] rd.kind = "Closed" -> [rd |-> rd, r |-> NoneV]
      [] rd.kind = "Error" ->
            [rd |-> rd,
             r |-> IF rd.err.some THEN Some(Err(rd.err.v)) ELSE NoneV]

\* ReadDir::next: the source after the call and the item it returned
ReadDir_next(rd) ==
    CASE rd.kind = "Once" ->
            [rd |-> ReadDirOnce(NoneV),
             r |-> IF rd.item.some THEN Some(Ok(rd.item.v)) ELSE NoneV]
      [] rd.kind = "Opened" ->
            IF rd.rd.rest = <<>>
            THEN [rd |-> rd, r |-> NoneV]
            ELSE [rd |-> ReadDirOpened([rd.rd EXCEPT !.rest = Tail(@)]),
                  r |-> Some(from_fsdent(rd.rd.dir, Head(rd.rd.rest)))]
      [] rd.kind = "Closed" -> [rd |-> rd, r |-> NoneV]
      [] rd.kind = "Error" ->
            [rd |-> ReadDirError(NoneV),
             r |-> IF rd.err.some THEN Some(Err(rd.err.v)) ELSE NoneV]

\* The raw results ReadDir::collect_all hands to its closure, and the source
\* it leaves behind.
ReadDir_collect_items(rd) ==
    CASE rd.kind = "Opened" ->
            [i \in 1..Len(rd.rd.rest) |-> from_fsdent(rd.rd.dir, rd.rd.rest[i])]
      [] rd.kind = "Once" -> IF rd.item.some THEN << Ok(rd.item.v) >> ELSE <<>>
      [] rd.kind = "Closed" -> <<>>
      [] rd.kind = "Error" -> IF rd.err.some THEN << Err(rd.err.v) >> ELSE <<>>

ReadDir_collect_rest(rd) ==
    CASE rd.kind = "Opened" -> ReadDirClosed
      [] rd.kind = "Once" -> ReadDirClosed
      [] rd.kind = "Closed" -> ReadDirClosed
      [] rd.kind = "Error" -> ReadDirError(NoneV)

(***************************************************************************)
(* DirEntryRecord (dir.rs).                                                 *)
(***************************************************************************)
\* DirEntryRecord::new: NoneV when the classification rejects the entry
\* The record made from the classification o of the raw entry
DirEntryRecord_classified(o, opts) ==
    IF ~o.some THEN NoneV
    ELSE IF o.v.ok
    THEN LET flat == o.v.v IN
         Some([flat |-> Ok(flat),
               first_pass |->
                  CASE opts.content_order = "None" -> FALSE
                    [] opts.content_order = "DirsFirst" -> flat.is_dir
                    [] opts.content_order = "FilesFirst" -> ~flat.is_dir,
               hidden |->
                  CASE opts.content_filter = "None" -> FALSE
                    [] opts.content_filter = "DirsOnly" -> ~flat.is_dir
                    [] opts.content_filter = "FilesOnly" -> flat.is_dir
                    [] opts.content_filter = "SkipAll" -> TRUE])
    ELSE Some([flat |-> Err(o.v.e), first_pass |-> FALSE, hidden |-> FALSE])

DirEntryRecord_new(r_rawdent, c) ==
    DirEntryRecord_classified(IF r_rawdent.ok THEN process_dent(c, r_rawdent.v)
                              ELSE Some(Err(r_rawdent.e)),
                              c.opts)

\* A can_be_yielded that lets no hidden record through
can_be_yielded_shown_only(rec) == ~rec.hidden

can_be_yielded(rec) ==
    IF ~rec.hidden THEN TRUE
    ELSE IF rec.flat.ok THEN rec.flat.v.is_dir
    ELSE FALSE

(***************************************************************************)
(* DirContent (dir.rs): rd, content (the records made so far) and           *)
(* current_pos (None, or the 0-based index of the current record).          *)
(***************************************************************************)
\* ReadDir::new: the stream, or the error of opening it kept to be yielded
ReadDir_new(rd) == IF rd.ok THEN ReadDirOpened(rd.v) ELSE ReadDirError(Some(rd.e))

DirContent_new(parent) ==
    [rd |-> ReadDir_new(read_dir_result(parent.path)),
     content |-> <<>>,
     current_pos |-> None]

new_rec(r_rawdent, c) == DirEntryRecord_new(r_rawdent, c)

\* ReadDir::collect_all, given the results of its closure on the items:
\* the records of the items the closure did not reject
collect_made(made) ==
    LET kept == SelectSeq(made, LAMBDA o : o.some)
    IN  [i \in DOMAIN kept |-> kept[i].v]

\* ReadDir::collect_all with the closure of load_all
collect_all(rd, c) ==
    collect_made([i \in DOMAIN ReadDir_collect_items(rd) |->
                     new_rec(ReadDir_collect_items(rd)[i], c)])

\* A store that puts the collected records before those already made
store_collected_in_front(dc, collected) ==
    [dc EXCEPT !.rd = ReadDir_collect_rest(dc.rd),
               !.content = collected \o dc.content]

\* A store that overwrites the records already made
store_collected_overwriting(dc, collected) ==
    [dc EXCEPT !.rd = ReadDir_collect_rest(dc.rd),
               !.content = collected]

\* The end of load_all: the collected records go behind those already made
store_collected(dc, collected) ==
    [dc EXCEPT !.rd = ReadDir_collect_rest(dc.rd),
               !.content = IF dc.content = <<>> THEN collected
                           ELSE dc.content \o collected]

\* A load_all that puts the cursor back before the first record
load_all_rewinding(dc, c) ==
    [store_collected(dc, collect_all(dc.rd, c)) EXCEPT !.current_pos = None]

\* DirContent::load_all
load_all(dc, c) == store_collected(dc, collect_all(dc.rd, c))

\* DirContent::get_next_rec: the loader after the call, and
\* Some(<<first_pass, can_be_yielded>>) of the record reached, or NoneV
RECURSIVE get_next_rec(_, _)

\* A push that sets the cursor to the length of the buffer after the push
get_next_rec_made_at_len(dc, rd, o, c) ==
    IF o.some
    THEN [dc |-> [rd |-> rd,
                  content |-> Append(dc.content, o.v),
                  current_pos |-> Len(dc.content) + 1],
          r |-> Some(<< o.v.first_pass, can_be_yielded(o.v) >>)]
    ELSE get_next_rec([dc EXCEPT !.rd = rd], c)

\* The part of get_next_rec after new_rec: rd is the source after the item
\* was taken, o the record made of it or NoneV
get_next_rec_made(dc, rd, o, c) ==
    IF o.some
    THEN [dc |-> [rd |-> rd,
                  content |-> Append(dc.content, o.v),
                  current_pos |-> Len(dc.content)],
          r |-> Some(<< o.v.first_pass, can_be_yielded(o.v) >>)]
    ELSE get_next_rec([dc EXCEPT !.rd = rd], c)

get_next_rec(dc, c) ==
    LET next_pos == IF dc.current_pos # None THEN dc.current_pos + 1 ELSE 0 IN
    IF next_pos < Len(dc.content)
    THEN LET rec == dc.content[next_pos + 1] IN
         [dc |-> [dc EXCEPT !.current_pos = next_pos],
          r |-> Some(<< rec.first_pass, can_be_yielded(rec) >>)]
    ELSE LET n == ReadDir_next(dc.rd) IN
         IF n.r.some
         THEN get_next_rec_made(dc, n.rd, new_rec(n.r.v, c), c)
         ELSE [dc |-> [dc EXCEPT !.rd = n.rd], r |-> NoneV]

rewind(dc) == [dc EXCEPT !.current_pos = None]

\* The comparator of the sorter: by the name (the node) of the entry
call_cmp(a, b, cmp) ==
    LET x == Last(a.path)
        y == Last(b.path)
    IN  IF x = y THEN "Equal"
        ELSE IF (cmp = "asc") = (x < y) THEN "Less" ELSE "Greater"

\* A closure that puts the records that failed behind the others
rec_cmp_errors_last(a, b, cmp) ==
    CASE a.flat.ok /\ b.flat.ok -> call_cmp(a.flat.v.raw, b.flat.v.raw, cmp)
      [] ~a.flat.ok /\ ~b.flat.ok -> "Equal"
      [] a.flat.ok /\ ~b.flat.ok -> "Less"
      [] ~a.flat.ok /\ b.flat.ok -> "Greater"

\* The closure DirContent::sort_content_and_rewind gives to sort_by
rec_cmp(a, b, cmp) ==
    CASE a.flat.ok /\ b.flat.ok -> call_cmp(a.flat.v.raw, b.flat.v.raw, cmp)
      [] ~a.flat.ok /\ ~b.flat.ok -> "Equal"
      [] a.flat.ok /\ ~b.flat.ok -> "Greater"
      [] ~a.flat.ok /\ b.flat.ok -> "Less"

\* slice::sort_by, a stable sort: every record goes behind the records
\* before it that do not compare Greater than it
RECURSIVE sort_insert(_, _, _)
sort_insert(sorted, x, cmp) ==
    IF sorted = <<>> THEN << x >>
    ELSE IF rec_cmp(Last(sorted), x, cmp) = "Greater"
         THEN Append(sort_insert(Front(sorted), x, cmp), Last(sorted))
         ELSE Append(sorted, x)

RECURSIVE sort_by(_, _)
sort_by(s, cmp) ==
    IF s = <<>> THEN <<>>
    ELSE sort_insert(sort_by(Front(s), cmp), Last(s), cmp)

\* A sort_content_and_rewind that rewinds and leaves the order alone
rewind_unsorted(dc, cmp) == [dc EXCEPT !.current_pos = None]

sort_content_and_rewind(dc, cmp) ==
    [dc EXCEPT !.content = sort_by(dc.content, cmp), !.current_pos = None]

load_all_and_sort(dc, cmp, c) == sort_content_and_rewind(load_all(dc, c), cmp)

(***************************************************************************)
(* DirState (dir.rs): depth, content, pass and position.                    *)
(***************************************************************************)
\* A get_initial_pass that never asks for two passes
get_initial_pass_entire(opts) == "Entire"

get_initial_pass(opts) ==
    IF opts.content_order = "None" THEN "Entire" ELSE "First"

DirState_init(ds, c) ==
    IF c.opts.sorter # "None"
    THEN [ds EXCEPT !.content = load_all_and_sort(ds.content, c.opts.sorter, c)]
    ELSE ds

DirState_new(parent, depth, c) ==
    DirState_init([depth |-> depth,
                   content |-> DirContent_new(parent),
                   pass |-> get_initial_pass(c.opts),
                   position |-> "BeforeContent"], c)

DirState_load_all(ds, c) == [ds EXCEPT !.content = load_all(ds.content, c)]

\* DirState::shift_next: the state after the call and whether a record that
\* is valid in the current pass and can be yielded has been reached
RECURSIVE shift_next(_, _)

\* A turn of the loop that goes to the second pass without a rewind
shift_next_rec_no_rewind(ds, n, c) ==
    LET ds1 == [ds EXCEPT !.content = n.dc]
    IN  IF n.r.some
        THEN LET first_pass == n.r.v[1]
                 yieldable == n.r.v[2]
                 valid_pass == CASE ds.pass = "Entire" -> TRUE
                                 [] ds.pass = "First" -> first_pass
                                 [] ds.pass = "Second" -> ~first_pass
             IN  IF valid_pass /\ yieldable
                 THEN [ds |-> ds1, r |-> TRUE]
                 ELSE shift_next(ds1, c)
        ELSE IF ds.pass = "First"
             THEN shift_next([ds1 EXCEPT !.pass = "Second"], c)
             ELSE [ds |-> [ds1 EXCEPT !.position = "AfterContent"], r |-> FALSE]

\* A turn of the loop that accepts a record in either pass
shift_next_rec_any_pass(ds, n, c) ==
    LET ds1 == [ds EXCEPT !.content = n.dc]
    IN  IF n.r.some
        THEN IF n.r.v[2]
             THEN [ds |-> ds1, r |-> TRUE]
             ELSE shift_next(ds1, c)
        ELSE IF ds.pass = "First"
             THEN shift_next([ds1 EXCEPT !.pass = "Second",
                                         !.content = rewind(n.dc)], c)
             ELSE [ds |-> [ds1 EXCEPT !.position = "AfterContent"], r |-> FALSE]

\* One turn of the loop of shift_next, n being what get_next_rec returned
shift_next_rec(ds, n, c) ==
    LET ds1 == [ds EXCEPT !.content = n.dc]
    IN  IF n.r.some
        THEN LET first_pass == n.r.v[1]
                 yieldable == n.r.v[2]
                 valid_pass == CASE ds.pass = "Entire" -> TRUE
                                 [] ds.pass = "First" -> first_pass
                                 [] ds.pass = "Second" -> ~first_pass
             IN  IF valid_pass /\ yieldable
                 THEN [ds |-> ds1, r |-> TRUE]
                 ELSE shift_next(ds1, c)
        ELSE IF ds.pass = "First"
             THEN shift_next([ds1 EXCEPT !.pass = "Second",
                                         !.content = rewind(n.dc)], c)
             ELSE [ds |-> [ds1 EXCEPT !.position = "AfterContent"], r |-> FALSE]

shift_next(ds, c) == shift_next_rec(ds, get_next_rec(ds.content, c), c)

\* The position next_position sets from what shift_next returned
position_after_shift(n) ==
    IF n.r THEN [n.ds EXCEPT !.position = "Entry"]
    ELSE [n.ds EXCEPT !.position = "AfterContent"]

\* next_position without the early return at AfterContent
next_position_always_shifting(ds, c) == position_after_shift(shift_next(ds, c))

next_position(ds, c) ==
    IF ds.position = "AfterContent" THEN ds
    ELSE position_after_shift(shift_next(ds, c))

\* DirContent::get_current_rec
get_current_rec(dc) == dc.content[dc.current_pos + 1]

get_current_position(ds) ==
    CASE ds.position = "BeforeContent" -> [kind |-> "BeforeContent"]
      [] ds.position = "Entry" ->
            LET rec == get_current_rec(ds.content) IN
            IF rec.flat.ok
            THEN [kind |-> "Entry", flat |-> rec.flat.v, hidden |-> rec.hidden]
            ELSE [kind |-> "Error", err |-> rec.flat.e]
      [] ds.position = "AfterContent" -> [kind |-> "AfterContent"]

skip_all(ds) == [ds EXCEPT !.position = "AfterContent"]

(***************************************************************************)
(* IntoIter (walk.rs).                                                      *)
(*   opts           the options of the builder                              *)
(*   start          the start path is still to be handled                   *)
(*   states         the stack of DirStates                                  *)
(*   states_path    the ancestors (only with follow_links)                  *)
(*   oldest_opened  index (0-based) of the oldest open state                *)
(*   depth          the stack length at the beginning of each iteration     *)
(*   deferred_dirs  the directories to yield after their contents           *)
(*   root_device    the device of the start path (only with                 *)
(*                  same_file_system)                                       *)
(*   read_dir_calls the backend's log of the read_dir calls                 *)
(*   in_range       oldest_opened has been an index of states, or its       *)
(*                  length, after every push and pop so far, and the index  *)
(*                  of a state whenever push closed the oldest stream       *)
(***************************************************************************)
IntoIter_new(opts) ==
    [opts |-> opts,
     start |-> TRUE,
     states |-> <<>>,
     states_path |-> <<>>,
     oldest_opened |-> 0,
     depth |-> 0,
     deferred_dirs |-> <<>>,
     root_device |-> None,
     read_dir_calls |-> <<>>,
     in_range |-> TRUE]

Ancestor_new(dent) == [path |-> dent.path, handle |-> get_handle(dent.path)]

\* A pop that leaves the ancestors alone
pop_states_only(c) ==
    LET states == Front(c.states) IN
    [c EXCEPT !.states = states,
              !.oldest_opened = Min(c.oldest_opened, Len(states))]

\* A pop that leaves oldest_opened alone
pop_unclamped(c) ==
    LET states == Front(c.states) IN
    [c EXCEPT !.states = states,
              !.states_path = IF c.opts.follow_links THEN Front(@) ELSE @,
              !.in_range = @ /\ c.oldest_opened <= Len(states)]

\* IntoIter::pop
pop(c) ==
    LET states == Front(c.states) IN
    [c EXCEPT !.states = states,
              !.states_path = IF c.opts.follow_links THEN Front(@) ELSE @,
              !.oldest_opened = Min(c.oldest_opened, Len(states)),
              !.in_range = @ /\ Min(c.oldest_opened, Len(states)) <= Len(states)]

\* The beginning of push: room for another open stream is made by loading
\* the rest of the oldest open state
make_room(c) ==
    IF Len(c.states) - c.oldest_opened = c.opts.max_open
    THEN [c EXCEPT !.states[c.oldest_opened + 1] = DirState_load_all(@, c),
                   !.in_range = @ /\ c.oldest_opened < Len(c.states)]
    ELSE c

\* A push_state that keeps oldest_opened
push_state_keep_oldest(c1, dent, closed) ==
    [c1 EXCEPT !.read_dir_calls = Append(@, dent.path),
               !.states_path = IF c1.opts.follow_links
                               THEN Append(@, Ancestor_new(dent)) ELSE @,
               !.states = Append(@, DirState_new(dent, Depth(dent) + 1, c1))]

\* The rest of push: the state of the directory is made and pushed, and
\* oldest_opened moves on when a stream was closed for it
push_state(c1, dent, closed) ==
    [c1 EXCEPT !.read_dir_calls = Append(@, dent.path),
               !.states_path = IF c1.opts.follow_links
                               THEN Append(@, Ancestor_new(dent)) ELSE @,
               !.states = Append(@, DirState_new(dent, Depth(dent) + 1, c1)),
               !.oldest_opened = IF closed THEN @ + 1 ELSE @,
               !.in_range = @ /\ (IF closed THEN c1.oldest_opened + 1
                                  ELSE c1.oldest_opened) <= Len(c1.states) + 1]

\* IntoIter::push of a directory that is not the start path
push(c, dent) ==
    push_state(make_room(c), dent,
               Len(c.states) - c.oldest_opened = c.opts.max_open)

\* A skip_current_dir that leaves the stack alone
skip_current_dir_idle(c) == c

\* IntoIter::skip_current_dir
skip_current_dir(c) == IF c.states # <<>> THEN pop(c) ELSE c

\* IntoIter::get_deferred_dir: the iterator after the call and the
\* directory to yield, if any
get_deferred_dir(c) ==
    IF c.opts.contents_first /\ c.depth < Len(c.deferred_dirs)
    THEN LET deferred == Last(c.deferred_dirs)
             c1 == [c EXCEPT !.deferred_dirs = Front(@)]
         IN  IF ~skippable(c1) THEN [it |-> c1, r |-> Some(deferred)]
             ELSE [it |-> c1, r |-> NoneV]
    ELSE [it |-> c, r |-> NoneV]

\* The condition under which handle_entry pushes the entry
descends(c, dent) ==
    IF ~is_symlink(dent) /\ is_dir(dent)
    THEN IF c.opts.same_file_system /\ Depth(dent) > 0
         THEN is_same_file_system(c, dent)
         ELSE TRUE
    ELSE Depth(dent) = 0 /\ is_symlink(dent) /\ metadata(dent.path) = "dir"

\* An end of handle_entry that defers every directory, contents_first or not
yield_or_defer_always(c1, dent) ==
    IF ~is_symlink(dent) /\ is_dir(dent)
    THEN [it |-> [c1 EXCEPT !.deferred_dirs = Append(@, dent)], r |-> NoneV]
    ELSE IF skippable(c1) THEN [it |-> c1, r |-> NoneV]
    ELSE [it |-> c1, r |-> Some(Ok(dent))]

\* The end of handle_entry: the entry is deferred, skipped or returned
yield_or_defer(c1, dent) ==
    IF (~is_symlink(dent) /\ is_dir(dent)) /\ c1.opts.contents_first
    THEN [it |-> [c1 EXCEPT !.deferred_dirs = Append(@, dent)], r |-> NoneV]
    ELSE IF skippable(c1) THEN [it |-> c1, r |-> NoneV]
    ELSE [it |-> c1, r |-> Some(Ok(dent))]

\* handle_entry after the link has been followed (f is the result of
\* following, or the entry itself)
handle_followed(c, f) ==
    IF ~f.ok THEN [it |-> c, r |-> Some(Err(f.e))]
    ELSE yield_or_defer(IF descends(c, f.v) THEN push(c, f.v) ELSE c, f.v)

\* IntoIter::handle_entry: the iterator after the call and the item to
\* return from next, if any
handle_entry(c, dent0) ==
    handle_followed(c, IF c.opts.follow_links /\ is_symlink(dent0)
                       THEN follow(c, dent0) ELSE Ok(dent0))

\* IntoIter::init: the first pull handles the start path
IntoIter_init(c) ==
    IF Node(1).fails = "stat"
    THEN [it |-> c, r |-> Some(Err([kind |-> "io", child |-> << 1 >>]))]
    ELSE LET c1 == IF c.opts.same_file_system
                   THEN [c EXCEPT !.root_device = device_num(<< 1 >>)] ELSE c
         IN  handle_entry(c1, from_path(<< 1 >>, FALSE))

RECURSIVE main_loop(_)

\* The return of next, or the next turn of the loop, after handle_entry
after_handle_entry(h) == IF h.r.some THEN h ELSE main_loop(h.it)

\* The match on the position the top state has moved to
on_position(c2, pos) ==
    CASE pos.kind = "AfterContent" -> main_loop(pop(c2))
      [] pos.kind = "Error" -> [it |-> c2, r |-> Some(Err(pos.err))]
      [] pos.kind = "Entry" -> after_handle_entry(handle_entry(c2, pos.flat.raw))

\* The top state moves on and its position is matched
step_top(c2) == on_position(c2, get_current_position(Last(c2.states)))

\* One turn of the loop after get_deferred_dir returned g
after_deferred(g) ==
    IF g.r.some THEN [it |-> g.it, r |-> Some(Ok(g.r.v))]
    ELSE IF g.it.depth > g.it.opts.max_depth THEN main_loop(pop(g.it))
    ELSE step_top([g.it EXCEPT !.states[Len(g.it.states)] =
                                   next_position(@, g.it)])

\* What next does once the stack is empty
after_loop(g) == [it |-> g.it, r |-> IF g.r.some THEN Some(Ok(g.r.v)) ELSE NoneV]

\* The main loop of IntoIter::next and what follows it
main_loop(c0) ==
    IF c0.states = <<>>
    THEN IF c0.opts.contents_first
         THEN after_loop(get_deferred_dir([c0 EXCEPT !.depth = 0]))
         ELSE [it |-> c0, r |-> NoneV]
    ELSE after_deferred(get_deferred_dir([c0 EXCEPT !.depth = Len(c0.states)]))

\* A start that takes an empty stack for a walk not yet started
starts_restarting(c) == c.start \/ c.states = <<>>

\* Whether next has the start path to handle first
starts(c) == c.start

\* IntoIter::next: the iterator after the pull and the item returned
IntoIter_next(c) ==
    IF starts(c)
    THEN after_handle_entry(IntoIter_init([c EXCEPT !.start = FALSE]))
    ELSE main_loop(c)

(***************************************************************************)
(* The walks checked.  The options are those the WalkDir builder can        *)
(* produce (min_depth <= max_depth, max_open >= 1).  follow_links and       *)
(* same_file_system are switched only on the file systems where they make   *)
(* a difference (those with links, with a second device).                   *)
(***************************************************************************)
HasKind(f, k) == \E n \in DOMAIN FileSystems[f] : FileSystems[f][n].kind = k
HasDevices(f) == \E n \in DOMAIN FileSystems[f] : FileSystems[f][n].dev # 0

DepthChoices == 0..MaxDepthChoice

DefaultOptions ==
    [same_file_system |-> FALSE,
     follow_links |-> FALSE,
     yield_loop_links |-> FALSE,
     max_open |-> DefaultMaxOpen,
     min_depth |-> 0,
     max_depth |-> UsizeMax,
     sorter |-> "None",
     contents_first |-> FALSE,
     content_filter |-> "None",
     content_order |-> "None"]

OptionsFor(f) ==
    { [DefaultOptions EXCEPT !.same_file_system = sfs,
                             !.follow_links = fl,
                             !.max_open = mo,
                             !.min_depth = mind,
                             !.max_depth = maxd,
                             !.sorter = so,
                             !.contents_first = cf] :
        sfs \in IF HasDevices(f) THEN BOOLEAN ELSE {FALSE},
        fl \in IF HasKind(f, "link") THEN BOOLEAN ELSE {FALSE},
        mo \in 1..MaxOpenChoice,
        mind \in DepthChoices,
        maxd \in { d \in DepthChoices \cup {UsizeMax} : TRUE },
        so \in {"None", "desc"},
        cf \in BOOLEAN }

ValidOptions(o) == o.min_depth <= o.max_depth /\ o.max_open >= 1

Init ==
    /\ fsys \in DOMAIN FileSystems
    /\ \E o \in OptionsFor(fsys) :
          /\ ValidOptions(o)
          /\ it = IntoIter_new(o)
          /\ ref = IntoIter_new([o EXCEPT !.max_open = DefaultMaxOpen])
    /\ out = <<>>
    /\ rout = <<>>
    /\ last = [op |-> "new"]
    /\ done = FALSE
    /\ skips = <<>>
    /\ nskips = 0
    /\ pred = NoneV /\ fe = NoneV /\ cfe = NoneV

\* A pull: Iterator::next
Pulled(a, b) ==
    /\ it' = a.it
    /\ ref' = b.it
    /\ out' = IF a.r.some THEN Append(out, a.r.v) ELSE out
    /\ rout' = IF b.r.some THEN Append(rout, b.r.v) ELSE rout
    /\ last' = [op |-> "next", r |-> a.r]
    /\ done' = (done \/ ~a.r.some)
    /\ UNCHANGED << fsys, skips, nskips, pred, fe, cfe >>

Pull == Pulled(IntoIter_next(it), IntoIter_next(ref))

\* A call of skip_current_dir
SkipCurrentDir ==
    /\ nskips < MaxSkips
    /\ it' = skip_current_dir(it)
    /\ ref' = skip_current_dir(ref)
    /\ skips' = Append(skips, last)
    /\ nskips' = nskips + 1
    /\ last' = [op |-> "skip"]
    /\ UNCHANGED << fsys, out, rout, done, pred, fe, cfe >>

Next == Pull \/ SkipCurrentDir

Spec == Init /\ [][Next]_vars

(***************************************************************************)
(* The walks with the options Spec leaves at their defaults:                *)
(* yield_loop_links, content_order and content_filter, without depth        *)
(* limits.  ref is the same walk with ContentFilter::None, given the same   *)
(* pulls.                                                                   *)
(***************************************************************************)
ContentOptionsFor(f) ==
    { [DefaultOptions EXCEPT !.follow_links = fl,
                             !.yield_loop_links = yl,
                             !.max_open = mo,
                             !.sorter = so,
                             !.contents_first = cf,
                             !.content_order = co,
                             !.content_filter = fi] :
        fl \in IF HasKind(f, "link") THEN BOOLEAN ELSE {FALSE},
        yl \in IF HasKind(f, "link") THEN BOOLEAN ELSE {FALSE},
        mo \in 1..MaxOpenChoice,
        so \in {"None", "desc"},
        cf \in BOOLEAN,
        co \in {"None", "DirsFirst", "FilesFirst"},
        fi \in {"None", "FilesOnly", "DirsOnly", "SkipAll"} }

ContentInit ==
    /\ fsys \in DOMAIN FileSystems
    /\ \E o \in ContentOptionsFor(fsys) :
          /\ ValidOptions(o)
          /\ it = IntoIter_new(o)
          /\ ref = IntoIter_new([o EXCEPT !.content_filter = "None"])
    /\ out = <<>>
    /\ rout = <<>>
    /\ last = [op |-> "new"]
    /\ done = FALSE
    /\ skips = <<>>
    /\ nskips = 0
    /\ pred = NoneV /\ fe = NoneV /\ cfe = NoneV

ContentSpec == ContentInit /\ [][Pull]_vars

(***************************************************************************)
(* The walks of the file systems with entries that fail.  ref is the same   *)
(* walk with the default max_open, given the same pulls.                    *)
(***************************************************************************)
FaultOptions ==
    { [DefaultOptions EXCEPT !.follow_links = fl,
                             !.max_open = mo,
                             !.sorter = so,
                             !.contents_first = cf,
                             !.content_order = co] :
        fl \in BOOLEAN,
        mo \in 1..MaxOpenChoice,
        so \in {"None", "desc"},
        cf \in BOOLEAN,
        co \in {"None", "DirsFirst", "FilesFirst"} }

FaultInit ==
    /\ fsys \in (Len(FileSystems) + 1)..(Len(FileSystems) + Len(FaultyFileSystems))
    /\ \E o \in FaultOptions :
          /\ ValidOptions(o)
          /\ it = IntoIter_new(o)
          /\ ref = IntoIter_new([o EXCEPT !.max_open = DefaultMaxOpen])
    /\ out = <<>>
    /\ rout = <<>>
    /\ last = [op |-> "new"]
    /\ done = FALSE
    /\ skips = <<>>
    /\ nskips = 0
    /\ pred = NoneV /\ fe = NoneV /\ cfe = NoneV

FaultSpec == FaultInit /\ [][Pull]_vars

(***************************************************************************)
(* The adapters of filter_entry (iter.rs).  An adapter holds its inner      *)
(* iterator; the model keeps with it the items the inner iterator           *)
(* returned (pulled), the items handed to the predicate (shown), the items  *)
(* the adapter returned (out), and whether it has returned None (done).     *)
(* The position stream of the inner IntoIter carries its entries as         *)
(* Position::Entry and its errors as Position::Error.                       *)
(*                                                                          *)
(* A predicate rejects the entries whose file name (node) is in reject;     *)
(* errs is what it answers when it is asked about an error.                 *)
(***************************************************************************)
\* the predicates reject at most one of the nodes 1..MaxRejectNode
MaxRejectNode == 4

Predicates ==
    { [reject |-> r, errs |-> e] :
        r \in { {} } \cup { { n } : n \in 1..MaxRejectNode },
        e \in BOOLEAN }

\* the predicate of ClassicFilterEntry, called on an entry
accepts(p, dent) == Last(dent.path) \notin p.reject

\* the predicate of FilterEntry, called on a position
accepts_position(p, item) == IF item.ok THEN accepts(p, item.v) ELSE p.errs

Adapter_new(inner) ==
    [inner |-> inner, pulled |-> <<>>, shown |-> <<>>, out |-> <<>>, done |-> FALSE]

\* An inner iterator that is left alone after a rejected entry
after_rejected_kept(inner, dent) == inner

\* The inner iterator after a rejected entry: a directory is skipped
after_rejected(inner, dent) ==
    IF is_dir(dent) THEN skip_current_dir(inner) ELSE inner

RECURSIVE FilterEntry_next(_, _)

\* One turn of the loop of FilterEntry::next, n being what inner.next()
\* returned
FilterEntry_item(f, n, p) ==
    IF ~n.r.some THEN [f |-> [f EXCEPT !.inner = n.it], r |-> NoneV]
    ELSE IF ~accepts_position(p, n.r.v)
    THEN FilterEntry_next(
            [f EXCEPT !.inner = IF n.r.v.ok THEN after_rejected(n.it, n.r.v.v)
                                ELSE n.it,
                      !.pulled = Append(@, n.r.v),
                      !.shown = Append(@, n.r.v)], p)
    ELSE [f |-> [f EXCEPT !.inner = n.it,
                          !.pulled = Append(@, n.r.v),
                          !.shown = Append(@, n.r.v)],
          r |-> Some(n.r.v)]

\* FilterEntry::next
FilterEntry_next(f, p) == FilterEntry_item(f, IntoIter_next(f.inner), p)

RECURSIVE ClassicFilterEntry_next(_, _)

\* One turn of the loop of ClassicFilterEntry::next
ClassicFilterEntry_item(f, n, p) ==
    IF ~n.r.some THEN [f |-> [f EXCEPT !.inner = n.it], r |-> NoneV]
    ELSE IF ~n.r.v.ok
    THEN [f |-> [f EXCEPT !.inner = n.it, !.pulled = Append(@, n.r.v)],
          r |-> Some(n.r.v)]
    ELSE IF ~accepts(p, n.r.v.v)
    THEN ClassicFilterEntry_next(
            [f EXCEPT !.inner = after_rejected(n.it, n.r.v.v),
                      !.pulled = Append(@, n.r.v),
                      !.shown = Append(@, n.r.v)], p)
    ELSE [f |-> [f EXCEPT !.inner = n.it,
                          !.pulled = Append(@, n.r.v),
                          !.shown = Append(@, n.r.v)],
          r |-> Some(n.r.v)]

\* ClassicFilterEntry::next
ClassicFilterEntry_next(f, p) ==
    ClassicFilterEntry_item(f, IntoIter_next(f.inner), p)

\* The adapter after a pull that returned r
Adapter_pulled(n) ==
    [n.f EXCEPT !.out = IF n.r.some THEN Append(@, n.r.v) ELSE @,
                !.done = @ \/ ~n.r.some]

FilterOptionsFor(f) ==
    { [DefaultOptions EXCEPT !.follow_links = fl,
                             !.max_open = mo,
                             !.sorter = so,
                             !.contents_first = cf] :
        fl \in IF f <= Len(FileSystems) /\ HasKind(f, "link")
               THEN BOOLEAN ELSE {FALSE},
        mo \in 1..MaxOpenChoice,
        so \in {"None", "desc"},
        cf \in BOOLEAN }

\* One walk is pulled unfiltered (it), one through each adapter
FilterInit ==
    /\ fsys \in 1..(Len(FileSystems) + Len(FaultyFileSystems))
    /\ \E o \in FilterOptionsFor(fsys) :
          /\ ValidOptions(o)
          /\ it = IntoIter_new(o)
          /\ ref = IntoIter_new(o)
          /\ fe = Adapter_new(IntoIter_new(o))
          /\ cfe = Adapter_new(IntoIter_new(o))
    /\ pred \in Predicates
    /\ out = <<>>
    /\ rout = <<>>
    /\ last = [op |-> "new"]
    /\ done = FALSE
    /\ skips = <<>>
    /\ nskips = 0

FilterPulled(a, b, c) ==
    /\ it' = a.it
    /\ out' = IF a.r.some THEN Append(out, a.r.v) ELSE out
    /\ last' = [op |-> "next", r |-> a.r]
    /\ done' = (done \/ ~a.r.some)
    /\ fe' = Adapter_pulled(b)
    /\ cfe' = Adapter_pulled(c)
    /\ UNCHANGED << fsys, ref, rout, skips, nskips, pred >>

\* A pull of the unfiltered walk and of each adapter
FilterPull ==
    FilterPulled(IntoIter_next(it), FilterEntry_next(fe, pred),
                 ClassicFilterEntry_next(cfe, pred))

FilterSpec == FilterInit /\ [][FilterPull]_vars

(***************************************************************************)
(* The walks that stay on the file system of the start path                 *)
(* (same_file_system), on the file systems with a mount point.  ref is the  *)
(* same walk without same_file_system, given the same pulls.                *)
(***************************************************************************)
MountOptions ==
    { [DefaultOptions EXCEPT !.same_file_system = TRUE,
                             !.follow_links = fl,
                             !.max_open = mo,
                             !.sorter = so,
                             !.contents_first = cf,
                             !.content_order = co] :
        fl \in BOOLEAN,
        mo \in 1..MaxOpenChoice,
        so \in {"None", "desc"},
        cf \in BOOLEAN,
        co \in {"None", "DirsFirst", "FilesFirst"} }

MountInit ==
    /\ fsys \in (Len(FileSystems) + Len(FaultyFileSystems) + 1)..
                   (Len(FileSystems) + Len(FaultyFileSystems) + Len(MountFileSystems))
    /\ \E o \in MountOptions :
          /\ ValidOptions(o)
          /\ it = IntoIter_new(o)
          /\ ref = IntoIter_new([o EXCEPT !.same_file_system = FALSE])
    /\ out = <<>>
    /\ rout = <<>>
    /\ last = [op |-> "new"]
    /\ done = FALSE
    /\ skips = <<>>
    /\ nskips = 0
    /\ pred = NoneV /\ fe = NoneV /\ cfe = NoneV

MountSpec == MountInit /\ [][Next]_vars

(***************************************************************************)
(* The driver of the position stream (the traversal driver of the           *)
(* specification, section 4.5): the IntoIter that WalkDirIter is            *)
(* implemented for in iter.rs, which returns Position values.  It has the   *)
(* fields of IntoIter above, the transition tag, and popped, the log of     *)
(* the directories whose state was popped.  Its states are the DirStates    *)
(* of dir.rs, the first being the state of the start path alone             *)
(* (DirState::new_once); it pushes and pops as IntoIter::push and           *)
(* IntoIter::pop do.                                                        *)
(***************************************************************************)
BeforeContent(parent) == [pos |-> "BeforeContent", dent |-> parent]
Entry(dent) == [pos |-> "Entry", dent |-> dent]
Error(err) == [pos |-> "Error", err |-> err]
\* of is the directory that is closed: the position itself carries nothing
AfterContent(dir) == [pos |-> "AfterContent", of |-> dir]

\* DirContent::new_once and DirState::new_once: the state that holds the
\* start path as its only item
DirContent_new_once(path) ==
    [rd |-> ReadDirOnce(Some(from_path(path, FALSE))),
     content |-> <<>>,
     current_pos |-> None]

DirState_new_once(path, depth, c) ==
    DirState_init([depth |-> depth,
                   content |-> DirContent_new_once(path),
                   pass |-> get_initial_pass(c.opts),
                   position |-> "BeforeContent"], c)

Driver_new(opts) ==
    [f \in DOMAIN IntoIter_new(opts) \cup {"transition", "popped"} |->
        CASE f = "transition" -> "None"
          [] f = "popped" -> <<>>
          [] OTHER -> IntoIter_new(opts)[f]]

\* The entry at the cursor of the state below the top one: the directory
\* the top state reads
parent_entry(c) ==
    LET ds == c.states[Len(c.states) - 1]
        rec == get_current_rec(ds.content)
    IN  IF ds.position = "Entry" /\ ds.content.current_pos # None /\ rec.flat.ok
        THEN Some(rec.flat.v.raw) ELSE NoneV

\* The top state moves to its next position
advance(c) == [c EXCEPT !.states[Len(c.states)] = next_position(@, c)]

\* An entry is yielded subject to min_depth, max_depth and the content
\* filter
yieldable(c, pos) ==
    /\ ~pos.hidden
    /\ Depth(pos.flat.raw) >= c.opts.min_depth
    /\ Depth(pos.flat.raw) <= c.opts.max_depth

\* The depth ceiling allows recursion and the entry is not a loop link
may_push(c, pos) ==
    Depth(pos.flat.raw) < c.opts.max_depth /\ pos.flat.loop_link = None

RECURSIVE Driver_loop(_)

\* The pull returns the entry when it is to be yielded, and goes on
\* otherwise
yield_if(c, yes, pos) ==
    IF yes THEN [it |-> c, r |-> Some(Entry(pos.flat.raw))] ELSE Driver_loop(c)

\* An at_before_content that reports nothing for the directory the walk
\* starts from
at_before_content_below_start(c) ==
    IF Len(c.states) > 2
    THEN [it |-> advance(c), r |-> Some(BeforeContent(parent_entry(c)))]
    ELSE Driver_loop(advance(c))

\* At BeforeContent: the cursor moves on, and BeforeContent is reported
\* with the entry of the parent frame when there is one
at_before_content(c) ==
    IF Len(c.states) > 1
    THEN [it |-> advance(c), r |-> Some(BeforeContent(parent_entry(c)))]
    ELSE Driver_loop(advance(c))

\* A driver that pushes in the pull that commits to the descent
at_dir_entry_eager(c, pos) ==
    CASE c.transition = "None" ->
            IF may_push(c, pos)
            THEN yield_if([push(c, pos.flat.raw) EXCEPT !.transition = "None"],
                          ~c.opts.contents_first /\ yieldable(c, pos), pos)
            ELSE yield_if([c EXCEPT !.transition = "AfterPopUp"],
                          ~c.opts.contents_first /\ yieldable(c, pos), pos)
      [] c.transition = "BeforePushDown" ->
            Driver_loop([push(c, pos.flat.raw) EXCEPT !.transition = "None"])
      [] OTHER ->
            yield_if(advance([c EXCEPT !.transition = "None"]),
                     c.opts.contents_first /\ yieldable(c, pos), pos)

\* At Entry for a directory candidate
at_dir_entry(c, pos) ==
    CASE c.transition = "None" ->
            yield_if([c EXCEPT !.transition = IF may_push(c, pos)
                                              THEN "BeforePushDown"
                                              ELSE "AfterPopUp"],
                     ~c.opts.contents_first /\ yieldable(c, pos), pos)
      [] c.transition = "BeforePushDown" ->
            Driver_loop([push(c, pos.flat.raw) EXCEPT !.transition = "None"])
      [] OTHER ->
            yield_if(advance([c EXCEPT !.transition = "None"]),
                     c.opts.contents_first /\ yieldable(c, pos), pos)

\* What ErrorInner::take leaves in a record whose error was taken
TakenError == [kind |-> "taken"]

\* ErrorInnerRef::into_error on the record at the cursor of the top state:
\* the error is taken out of the record
into_error(c) ==
    LET top == Len(c.states)
        pos == c.states[top].content.current_pos
    IN  [c EXCEPT !.states[top].content.content[pos + 1].flat = Err(TakenError)]

\* At Entry and at Error
at_entry(c, pos) ==
    IF pos.kind = "Error"
    THEN [it |-> advance(into_error(c)), r |-> Some(Error(pos.err))]
    ELSE IF descends(c, pos.flat.raw)
    THEN at_dir_entry(c, pos)
    ELSE yield_if(advance(c), yieldable(c, pos), pos)

\* An AfterContent that pops in the pull that reports
at_after_content_eager(c) ==
    IF Len(c.states) = 1
    THEN [it |-> c, r |-> NoneV]
    ELSE [it |-> [pop(c) EXCEPT !.transition = "AfterPopUp",
                                !.popped = Append(@, parent_entry(c))],
          r |-> Some(AfterContent(parent_entry(c)))]

\* At AfterContent: the end of the walk for the state of the start path;
\* for another state the report first, and the pop in the next pull
at_after_content(c) ==
    IF Len(c.states) = 1
    THEN [it |-> c, r |-> NoneV]
    ELSE IF c.transition = "BeforePopUp"
    THEN Driver_loop([pop(c) EXCEPT !.transition = "AfterPopUp",
                                    !.popped = Append(@, parent_entry(c))])
    ELSE [it |-> [c EXCEPT !.transition = "BeforePopUp"],
          r |-> Some(AfterContent(parent_entry(c)))]

\* The match on the position of the top state
at_position(c, pos) ==
    CASE pos.kind = "BeforeContent" -> at_before_content(c)
      [] pos.kind = "AfterContent" -> at_after_content(c)
      [] OTHER -> at_entry(c, pos)

Driver_loop(c) ==
    IF c.states = <<>> THEN [it |-> c, r |-> NoneV]
    ELSE at_position(c, get_current_position(Last(c.states)))

\* The classification of the start path: a start path that is a link to a
\* directory is classified as a directory, and still reports itself as a link
root_record(rec, c) ==
    IF rec.flat.ok /\ is_symlink(rec.flat.v.raw)
       /\ metadata(rec.flat.v.raw.path) = "dir"
    THEN DirEntryRecord_classified(
            Some(Ok([rec.flat.v EXCEPT !.is_dir = TRUE])), c.opts).v
    ELSE rec

root_state(c) ==
    LET ds == DirState_load_all(DirState_new_once(<< 1 >>, 0, c), c)
    IN  [ds EXCEPT !.content.content =
            [i \in DOMAIN @ |-> root_record(@[i], c)]]

\* The first pull makes the state of the start path; a start path that
\* cannot be stat-ed is the one error of the walk
Driver_init(c) ==
    IF Node(1).fails = "stat"
    THEN [it |-> c, r |-> Some(Error([kind |-> "io", child |-> << 1 >>]))]
    ELSE Driver_loop(
            [c EXCEPT !.root_device = IF c.opts.same_file_system
                                      THEN device_num(<< 1 >>) ELSE @,
                      !.states = << root_state(c) >>])

\* One pull of the position stream
Driver_next(c) ==
    IF c.start THEN Driver_init([c EXCEPT !.start = FALSE]) ELSE Driver_loop(c)

\* skip_current_dir: the top state goes to AfterContent and the transition
\* tag is cleared
Driver_skip_current_dir(c) ==
    IF c.states = <<>> THEN c
    ELSE [c EXCEPT !.states[Len(c.states)] = skip_all(@),
                   !.transition = "None"]

(***************************************************************************)
(* The walks of the position stream.  ref is the same walk with             *)
(* ContentFilter::None, given the same calls.                               *)
(***************************************************************************)
PositionOptionsFor(f) ==
    { [DefaultOptions EXCEPT !.follow_links = fl,
                             !.max_open = mo,
                             !.min_depth = mind,
                             !.max_depth = maxd,
                             !.sorter = so,
                             !.contents_first = cf,
                             !.content_order = co,
                             !.content_filter = fi] :
        fl \in IF f <= Len(FileSystems) /\ HasKind(f, "link")
               THEN BOOLEAN ELSE {FALSE},
        mo \in (1..MaxOpenChoice) \cup {DefaultMaxOpen},
        mind \in 0..1,
        maxd \in {MaxDepthChoice, UsizeMax},
        so \in {"None", "desc"},
        cf \in BOOLEAN,
        co \in {"None", "DirsFirst"},
        fi \in {"None", "FilesOnly", "DirsOnly", "SkipAll"} }

PositionInit ==
    /\ fsys \in DOMAIN AllFileSystems
    /\ \E o \in PositionOptionsFor(fsys) :
          /\ ValidOptions(o)
          /\ it = Driver_new(o)
          /\ ref = Driver_new([o EXCEPT !.content_filter = "None"])
    /\ out = <<>>
    /\ rout = <<>>
    /\ last = [op |-> "new"]
    /\ done = FALSE
    /\ skips = <<>>
    /\ nskips = 0
    /\ pred = NoneV /\ fe = NoneV /\ cfe = NoneV

\* A pull of the position stream
PositionPull == Pulled(Driver_next(it), Driver_next(ref))

PositionSpec == PositionInit /\ [][PositionPull]_vars

\* The walks of the position stream in which skip_current_dir is called at
\* any point
SkipOptionsFor(f) ==
    { [DefaultOptions EXCEPT !.follow_links = fl,
                             !.max_open = mo,
                             !.contents_first = cf,
                             !.content_filter = fi] :
        fl \in IF f <= Len(FileSystems) /\ HasKind(f, "link")
               THEN BOOLEAN ELSE {FALSE},
        mo \in 1..MaxOpenChoice,
        cf \in BOOLEAN,
        fi \in {"None", "SkipAll"} }

SkipInit ==
    /\ fsys \in DOMAIN AllFileSystems
    /\ \E o \in SkipOptionsFor(fsys) :
          /\ ValidOptions(o)
          /\ it = Driver_new(o)
          /\ ref = Driver_new([o EXCEPT !.content_filter = "None"])
    /\ out = <<>>
    /\ rout = <<>>
    /\ last = [op |-> "new"]
    /\ done = FALSE
    /\ skips = <<>>
    /\ nskips = 0
    /\ pred = NoneV /\ fe = NoneV /\ cfe = NoneV

\* A call of skip_current_dir on the driver of the position stream
PositionSkip ==
    /\ nskips < MaxSkips
    /\ it' = Driver_skip_current_dir(it)
    /\ ref' = Driver_skip_current_dir(ref)
    /\ skips' = Append(skips, last)
    /\ nskips' = nskips + 1
    /\ last' = [op |-> "skip"]
    /\ UNCHANGED << fsys, out, rout, done, pred, fe, cfe >>

SkipNext == PositionPull \/ PositionSkip

SkipSpec == SkipInit /\ [][SkipNext]_vars

(***************************************************************************)
(* A content loader on its own: a DirContent of one directory (or of the    *)
(* start path alone) under any sequence of get_next_rec, rewind and         *)
(* load_all.  it is the loader with what was observed of it:                *)
(*   c          the iterator whose options classify the entries             *)
(*   dc         the DirContent                                              *)
(*   dir        the path of the directory                                   *)
(*   once       the loader was made by new_once, for the path alone         *)
(*   reads      the backend items taken from the stream so far              *)
(*   exhausted  get_next_rec has returned None                              *)
(*   late_polls the reads of the backend stream after that                  *)
(* ref is the loader that gets the same calls but for load_all; out and     *)
(* rout are what get_next_rec returned, with the record under the cursor.   *)
(***************************************************************************)
\* number of calls on a loader or a state in one behaviour
MaxCalls == 6

\* the directories a loader is made for: the start directory and the
\* directories in it
LoaderDirs ==
    { p \in {<< 1 >>} \cup { << 1, k >> : k \in DOMAIN AllFileSystems[fsys] } :
         /\ metadata(p) = "dir"
         /\ Len(p) = 2 =>
               \E i \in DOMAIN Node(Resolve(1)).kids :
                  Node(Resolve(1)).kids[i] = p[2] }

LoaderOptionsFor(f) ==
    { [DefaultOptions EXCEPT !.follow_links = fl,
                             !.content_order = co,
                             !.content_filter = fi] :
        fl \in IF f <= Len(FileSystems) /\ HasKind(f, "link")
               THEN BOOLEAN ELSE {FALSE},
        co \in {"None", "DirsFirst"},
        fi \in {"None", "FilesOnly"} }

Loader(c, dc, dir) ==
    [c |-> c, dc |-> dc, dir |-> dir, once |-> dc.rd.kind = "Once",
     reads |-> <<>>, exhausted |-> FALSE, late_polls |-> 0]

\* the items still in the backend stream of a source
StreamRest(rd) == IF rd.kind = "Opened" THEN rd.rd.rest ELSE <<>>

\* the loader after a call turned its DirContent into dc
Loader_after(l, dc) ==
    [l EXCEPT !.dc = dc,
              !.reads = @ \o SubSeq(StreamRest(l.dc.rd), 1,
                                    Len(StreamRest(l.dc.rd))
                                       - Len(StreamRest(dc.rd)))]

\* get_next_rec reads the backend stream: no record is left in the buffer
\* and the source is an open stream
reads_backend(dc) ==
    /\ (IF dc.current_pos # None THEN dc.current_pos + 1 ELSE 0)
          >= Len(dc.content)
    /\ dc.rd.kind = "Opened"

Loader_get_next_rec(l) ==
    LET n == get_next_rec(l.dc, l.c)
    IN  [l |-> [Loader_after(l, n.dc) EXCEPT
                   !.exhausted = @ \/ ~n.r.some,
                   !.late_polls = IF l.exhausted /\ reads_backend(l.dc)
                                  THEN @ + 1 ELSE @],
         r |-> IF n.r.some
               THEN Some([flags |-> n.r.v, rec |-> get_current_rec(n.dc)])
               ELSE NoneV]

LoaderInit ==
    /\ fsys \in DOMAIN AllFileSystems
    /\ \E o \in LoaderOptionsFor(fsys) :
       \E once \in BOOLEAN :
       \E p \in LoaderDirs :
          LET c == IntoIter_new(o)
              dc == IF once /\ p = << 1 >>
                    THEN DirContent_new_once(p)
                    ELSE DirContent_new(from_path(p, FALSE))
          IN  /\ it = Loader(c, dc, p)
              /\ ref = Loader(c, dc, p)
    /\ out = <<>>
    /\ rout = <<>>
    /\ last = [op |-> "new"]
    /\ done = FALSE
    /\ skips = <<>>
    /\ nskips = 0
    /\ pred = NoneV /\ fe = NoneV /\ cfe = NoneV

LoaderCalled(op, a, b) ==
    /\ nskips < MaxCalls
    /\ nskips' = nskips + 1
    /\ it' = a.l
    /\ ref' = b.l
    /\ out' = IF op = "get_next_rec" THEN Append(out, a.r) ELSE out
    /\ rout' = IF op = "get_next_rec" THEN Append(rout, b.r) ELSE rout
    /\ last' = [op |-> op, r |-> a.r]
    /\ UNCHANGED << fsys, done, skips, pred, fe, cfe >>

LoaderGetNextRec ==
    LoaderCalled("get_next_rec", Loader_get_next_rec(it), Loader_get_next_rec(ref))

LoaderRewind ==
    LoaderCalled("rewind",
                 [l |-> Loader_after(it, rewind(it.dc)), r |-> NoneV],
                 [l |-> Loader_after(ref, rewind(ref.dc)), r |-> NoneV])

LoaderLoadAll ==
    LoaderCalled("load_all",
                 [l |-> Loader_after(it, load_all(it.dc, it.c)), r |-> NoneV],
                 [l |-> ref, r |-> NoneV])

LoaderNext == LoaderGetNextRec \/ LoaderRewind \/ LoaderLoadAll

LoaderSpec == LoaderInit /\ [][LoaderNext]_vars

(***************************************************************************)
(* A state on its own: a DirState of one directory (or of the start path    *)
(* alone) under any interleaving of next_position, get_current_position,    *)
(* load_all, clone_all_content and skip_all.  it is the state with what     *)
(* was observed of it:                                                      *)
(*   c        the iterator whose options classify the entries               *)
(*   ds       the DirState                                                  *)
(*   dir      the path of the directory                                     *)
(*   skipped  skip_all has been called                                      *)
(* ref is the state that gets the same calls but for load_all and           *)
(* clone_all_content; out and rout are the positions next_position          *)
(* reached, each with the pass, the cursor and the record under it.         *)
(***************************************************************************)
\* DirContent::iter_content_flats: the flat entries of the records that are
\* not errors; the closure f is applied by the caller
iter_content_flats(dc) ==
    LET oks == SelectSeq(dc.content, LAMBDA rec : rec.flat.ok)
    IN  [i \in DOMAIN oks |-> oks[i].flat.v]

\* A clone_all_content that takes the records the content_filter option
\* of the walk lets through
clone_all_content_as_walk(ds, filter, c) ==
    LET ds1 == [ds EXCEPT !.content = load_all(ds.content, c)]
        shown == SelectSeq(ds1.content.content,
                           LAMBDA rec : rec.flat.ok /\ ~rec.hidden)
    IN  [ds |-> ds1, r |-> [i \in DOMAIN shown |-> shown[i].flat.v.raw]]

\* DirState::clone_all_content: the state after the call and the collection
\* returned; process_direntry makes the item of a flat entry
clone_all_content(ds, filter, c) ==
    LET ds1 == [ds EXCEPT !.content = load_all(ds.content, c)]
        flats == CASE filter = "None" -> iter_content_flats(ds1.content)
                   [] filter = "DirsOnly" ->
                         SelectSeq(iter_content_flats(ds1.content),
                                   LAMBDA flat : flat.is_dir)
                   [] filter = "FilesOnly" ->
                         SelectSeq(iter_content_flats(ds1.content),
                                   LAMBDA flat : ~flat.is_dir)
                   [] filter = "SkipAll" -> <<>>
    IN  [ds |-> ds1, r |-> [i \in DOMAIN flats |-> flats[i].raw]]

\* the position of a state as get_current_position returns it, Panic when
\* the unwrap of the cursor or of the record fails
Observed(ds) ==
    IF /\ ds.position = "Entry"
       /\ \/ ds.content.current_pos = None
          \/ ds.content.current_pos >= Len(ds.content.content)
    THEN [kind |-> "Panic"]
    ELSE get_current_position(ds)

Reached(ds) ==
    [pos |-> Observed(ds), pass |-> ds.pass, at |-> ds.content.current_pos]

StateOptionsFor(f) ==
    { [DefaultOptions EXCEPT !.follow_links = fl,
                             !.sorter = so,
                             !.content_order = co,
                             !.content_filter = fi] :
        fl \in IF f <= Len(FileSystems) /\ HasKind(f, "link")
               THEN BOOLEAN ELSE {FALSE},
        so \in {"None", "desc"},
        co \in {"None", "DirsFirst", "FilesFirst"},
        fi \in {"None", "FilesOnly", "DirsOnly", "SkipAll"} }

State(c, ds, dir) == [c |-> c, ds |-> ds, dir |-> dir, skipped |-> FALSE]

StateInit ==
    /\ fsys \in DOMAIN AllFileSystems
    /\ \E o \in StateOptionsFor(fsys) :
       \E once \in BOOLEAN :
       \E p \in LoaderDirs :
          LET c == IntoIter_new(o)
              ds == IF once /\ p = << 1 >>
                    THEN DirState_new_once(p, 0, c)
                    ELSE DirState_new(from_path(p, FALSE), Len(p), c)
          IN  /\ it = State(c, ds, p)
              /\ ref = State(c, ds, p)
    /\ out = <<>>
    /\ rout = <<>>
    /\ last = [op |-> "new"]
    /\ done = FALSE
    /\ skips = <<>>
    /\ nskips = 0
    /\ pred = NoneV /\ fe = NoneV /\ cfe = NoneV

StateCalled(op, a, b, r) ==
    /\ it' = a
    /\ ref' = b
    /\ last' = [op |-> op, r |-> r]
    /\ out' = IF op = "next_position" THEN Append(out, Reached(a.ds)) ELSE out
    /\ rout' = IF op = "next_position" THEN Append(rout, Reached(b.ds)) ELSE rout
    /\ UNCHANGED << fsys, done, skips, nskips, pred, fe, cfe >>

StateNextPosition ==
    /\ Len(out) < MaxCalls
    /\ StateCalled("next_position",
                   [it EXCEPT !.ds = next_position(@, it.c)],
                   [ref EXCEPT !.ds = next_position(@, ref.c)], NoneV)

StateGetCurrentPosition ==
    StateCalled("get_current_position", it, ref, Some(Observed(it.ds)))

StateLoadAll ==
    StateCalled("load_all", [it EXCEPT !.ds = DirState_load_all(@, it.c)],
                ref, NoneV)

StateCloneAllContent ==
    \E filter \in {"None", "FilesOnly", "DirsOnly", "SkipAll"} :
        LET n == clone_all_content(it.ds, filter, it.c)
        IN  StateCalled("clone_all_content", [it EXCEPT !.ds = n.ds], ref,
                        Some([filter |-> filter, items |-> n.r]))

StateSkipAll ==
    StateCalled("skip_all",
                [it EXCEPT !.ds = skip_all(@), !.skipped = TRUE],
                [ref EXCEPT !.ds = skip_all(@), !.skipped = TRUE], NoneV)

StateNext ==
    \/ StateNextPosition
    \/ StateGetCurrentPosition
    \/ StateLoadAll
    \/ StateCloneAllContent
    \/ StateSkipAll

StateSpec == StateInit /\ [][StateNext]_vars

(***************************************************************************)
(* The builder: the options of a WalkDir under any sequence of min_depth,   *)
(* max_depth and max_open.  it is the options record, last the call made.   *)
(***************************************************************************)
\* the arguments of the calls are chosen in 0..MaxArg, or are usize::MAX
MaxArg == 3

BuilderArgs == (0..MaxArg) \cup {UsizeMax}

WalkDir_min_depth(o, depth) ==
    LET o1 == [o EXCEPT !.min_depth = depth]
    IN  IF o1.min_depth > o1.max_depth
        THEN [o1 EXCEPT !.min_depth = o1.max_depth]
        ELSE o1

WalkDir_max_depth(o, depth) ==
    LET o1 == [o EXCEPT !.max_depth = depth]
    IN  IF o1.max_depth < o1.min_depth
        THEN [o1 EXCEPT !.max_depth = o1.min_depth]
        ELSE o1

\* A max_open that stores its argument as it is
WalkDir_max_open_unclamped(o, n) == [o EXCEPT !.max_open = n]

WalkDir_max_open(o, n) ==
    LET n1 == IF n = 0 THEN 1 ELSE n
    IN  [o EXCEPT !.max_open = n1]

BuilderInit ==
    /\ it = DefaultOptions
    /\ ref = DefaultOptions
    /\ last = [op |-> "new"]
    /\ fsys = 1
    /\ out = <<>>
    /\ rout = <<>>
    /\ done = FALSE
    /\ skips = <<>>
    /\ nskips = 0
    /\ pred = NoneV /\ fe = NoneV /\ cfe = NoneV

BuilderCalled(op, arg, o) ==
    /\ it' = o
    /\ last' = [op |-> op, arg |-> arg]
    /\ UNCHANGED << fsys, ref, out, rout, done, skips, nskips, pred, fe, cfe >>

BuilderMinDepth ==
    \E a \in BuilderArgs : BuilderCalled("min_depth", a, WalkDir_min_depth(it, a))

BuilderMaxDepth ==
    \E b \in BuilderArgs : BuilderCalled("max_depth", b, WalkDir_max_depth(it, b))

BuilderMaxOpen ==
    \E n \in BuilderArgs : BuilderCalled("max_open", n, WalkDir_max_open(it, n))

BuilderNext == BuilderMinDepth \/ BuilderMaxDepth \/ BuilderMaxOpen

BuilderSpec == BuilderInit /\ [][BuilderNext]_vars

(***************************************************************************)
(* What the walks are compared with: the tree below the start path, read    *)
(* off the file system without following any link but the start path.       *)
(***************************************************************************)
IsProperPrefix(p, q) == Len(p) < Len(q) /\ SubSeq(q, 1, Len(p)) = p

ResolveIn(f, n) ==
    IF FileSystems[f][n].kind = "link" THEN FileSystems[f][n].target ELSE n

KidsIn(f, n) ==
    IF FileSystems[f][n].kind = "dir" THEN FileSystems[f][n].kids ELSE <<>>

RECURSIVE TreeBelow(_, _)
TreeBelow(f, p) ==
    LET kids == KidsIn(f, IF Len(p) = 1 THEN ResolveIn(f, Last(p)) ELSE Last(p))
    IN  UNION { {Append(p, kids[i])} \cup TreeBelow(f, Append(p, kids[i])) :
                i \in DOMAIN kids }

TreeOf == [f \in DOMAIN FileSystems |-> { << 1 >> } \cup TreeBelow(f, << 1 >>)]

Tree == TreeOf[fsys]

InRange(p) == it.opts.min_depth <= Len(p) - 1 /\ Len(p) - 1 <= it.opts.max_depth

\* the path an item is about
ItemPath(x) == IF x.ok THEN x.v.path ELSE x.e.child
OutPaths == { ItemPath(out[i]) : i \in DOMAIN out }
AllEntries == \A i \in DOMAIN out : out[i].ok
NoDuplicates == \A i, j \in DOMAIN out : ItemPath(out[i]) = ItemPath(out[j]) => i = j

\* an entry whose file type is directory
IsDirEntry(x) == x.ok /\ is_dir(x.v)

\* skip_current_dir was called twice with no pull in between
SkippedTwiceInARow == \E i \in DOMAIN skips : skips[i].op = "skip"

NoLimits == it.opts.min_depth = 0 /\ it.opts.max_depth = UsizeMax
PlainWalk == ~it.opts.follow_links /\ ~it.opts.same_file_system

(***************************************************************************)
(* C1: with no link following, no filter and no depth limits, a walk that   *)
(* has run to its end without skip_current_dir has yielded every object of  *)
(* the tree below the start path as an entry, each exactly once.            *)
(***************************************************************************)
C1_EveryObjectOnce ==
    (done /\ nskips = 0 /\ PlainWalk /\ NoLimits)
        => (AllEntries /\ NoDuplicates /\ OutPaths = Tree)

\* a finished default walk of the three-level tree
C1_Witness ==
    /\ done /\ nskips = 0 /\ fsys = 2
    /\ it.opts = [DefaultOptions EXCEPT !.max_open = 1]
    /\ Len(out) = 8

(***************************************************************************)
(* C2: with contents_first = false every directory is yielded before its    *)
(* descendants: when an item below a directory comes out, every ancestor    *)
(* of it that min_depth lets through has come out before it, and none       *)
(* comes out after it.                                                      *)
(***************************************************************************)
C2_PreOrder ==
    ~it.opts.contents_first =>
        \A j \in DOMAIN out :
            /\ \A n \in (it.opts.min_depth + 1)..(Len(ItemPath(out[j])) - 1) :
                  \E i \in 1..(j - 1) :
                      out[i].ok /\ out[i].v.path = SubSeq(ItemPath(out[j]), 1, n)
            /\ \A i \in DOMAIN out :
                  (out[i].ok /\ IsProperPrefix(out[i].v.path, ItemPath(out[j])))
                      => i < j

\* the file three levels down has come out, after its three ancestors
C2_Witness ==
    /\ ~it.opts.contents_first /\ fsys = 2 /\ it.opts.min_depth = 0
    /\ \E j \in DOMAIN out : out[j].ok /\ out[j].v.path = << 1, 2, 3, 4 >>

(***************************************************************************)
(* C3: with contents_first = true a directory (an entry whose file type is  *)
(* directory) is yielded after all its descendants and before anything      *)
(* that is not below it: the items of its subtree come out in one run that  *)
(* ends with the directory.  The walk of foo/{abc/{qrs,tuv},def} yields     *)
(* qrs, tuv, abc, def, foo.  The walks checked are those where              *)
(* skip_current_dir is not called twice without a pull in between.          *)
(***************************************************************************)
C3_PostOrder ==
    (it.opts.contents_first /\ ~SkippedTwiceInARow) =>
        /\ \A i, j \in DOMAIN out :
              (IsDirEntry(out[i]) /\ IsProperPrefix(out[i].v.path, ItemPath(out[j])))
                  => j < i
        /\ \A i, j, k \in DOMAIN out :
              (i < j /\ j < k /\ IsDirEntry(out[k])
                  /\ IsProperPrefix(out[k].v.path, ItemPath(out[i])))
                  => IsProperPrefix(out[k].v.path, ItemPath(out[j]))
        /\ (done /\ nskips = 0 /\ fsys = 1 /\ NoLimits /\ it.opts.sorter = "None")
              => [i \in DOMAIN out |-> ItemPath(out[i])] =
                     << << 1, 2, 3 >>, << 1, 2, 4 >>, << 1, 2 >>, << 1, 5 >>, << 1 >> >>


(***************************************************************************)
(* C4: the walk ends after finitely many pulls, symbolic links followed or  *)
(* not.  A cycle is cut: no directory occurs more than twice among the      *)
(* ancestors of an item (twice when the entries of a directory are          *)
(* classified as its state is made, before the directory is on the          *)
(* ancestor stack).  No path comes out twice.  So the pulls that return an  *)
(* item are at most as many as those paths, finitely many in a finite       *)
(* tree, and the next pull returns None.                                    *)
(***************************************************************************)
Occurrences(f, p, h) ==
    Cardinality({ i \in 1..(Len(p) - 1) : ResolveIn(f, p[i]) = h })

CycleCut(f, p) ==
    \A i \in 1..(Len(p) - 1) : Occurrences(f, p, ResolveIn(f, p[i])) <= 2

\* the paths below p on which every cycle is cut
RECURSIVE WalkBelow(_, _)
WalkBelow(f, p) ==
    LET kids == KidsIn(f, ResolveIn(f, Last(p)))
        below == { Append(p, kids[i]) : i \in DOMAIN kids }
    IN  UNION { {q} \cup WalkBelow(f, q) : q \in { x \in below : CycleCut(f, x) } }

WalkPathsOf == [f \in DOMAIN FileSystems |-> { << 1 >> } \cup WalkBelow(f, << 1 >>)]

WalkPaths == WalkPathsOf[fsys]

C4_Terminates ==
    /\ \A k \in DOMAIN out : ItemPath(out[k]) \in WalkPaths
    /\ NoDuplicates
    /\ Len(out) <= Cardinality(WalkPaths)

\* a walk that follows links has met the cycle and has ended
C4_Witness ==
    /\ done /\ fsys = 3 /\ it.opts.follow_links
    /\ \E k \in DOMAIN out : ~out[k].ok /\ out[k].e.kind = "loop"

(***************************************************************************)
(* C5: once a pull has returned None, every later pull returns None and     *)
(* yields nothing, whatever calls of skip_current_dir come in between.      *)
(***************************************************************************)
C5_EndIsFinal ==
    [][done => (out' = out /\ (last'.op = "next" => ~last'.r.some))]_vars

\* a pull after the end, with a skip_current_dir after the end before it
C5_Witness ==
    /\ done /\ last.op = "next" /\ ~last.r.some
    /\ \E i \in DOMAIN skips : skips[i].op = "next" /\ ~skips[i].r.some
    /\ Len(out) >= 3

(***************************************************************************)
(* C6: the number of states on the stack whose source is an open read       *)
(* stream never exceeds max_open.                                           *)
(***************************************************************************)
OpenStreams(c) ==
    Cardinality({ i \in DOMAIN c.states : c.states[i].content.rd.kind = "Opened" })

C6_OpenBounded == OpenStreams(it) <= it.opts.max_open

\* the stack is deeper than max_open and max_open streams are open
C6_Witness ==
    /\ Len(it.states) > it.opts.max_open
    /\ OpenStreams(it) = it.opts.max_open
    /\ it.opts.max_open = 2

(***************************************************************************)
(* C7: the items pulled with max_open = 1, or any other value, are the      *)
(* items pulled with max_open = 10, in the same order, for every tree and   *)
(* every setting of the other options.                                      *)
(***************************************************************************)
C7_SameItems == out = rout

(***************************************************************************)
(* C8: every entry yielded has its depth in [min_depth, max_depth], and a   *)
(* walk run to its end (no link followed, one file system, no               *)
(* skip_current_dir) has yielded every entry of the tree whose depth is in  *)
(* that range.                                                              *)
(***************************************************************************)
C8_DepthRange ==
    /\ \A k \in DOMAIN out : out[k].ok => InRange(out[k].v.path)
    /\ (done /\ nskips = 0 /\ PlainWalk)
          => (AllEntries /\ NoDuplicates
              /\ OutPaths = { p \in Tree : InRange(p) })

(***************************************************************************)
(* C9: with max_depth = d2 no read_dir call is made on a directory at       *)
(* depth >= d2: every directory the backend was asked to read lies at a     *)
(* depth below max_depth.                                                   *)
(***************************************************************************)
C9_NoReadAtMaxDepth ==
    \A k \in DOMAIN it.read_dir_calls :
        Len(it.read_dir_calls[k]) - 1 < it.opts.max_depth

(***************************************************************************)
(* C10: in a pre-order walk, when skip_current_dir is called right after    *)
(* the pull that yielded a directory, nothing below that directory is       *)
(* yielded; and when every skip_current_dir of a walk run to its end was    *)
(* such a call, everything else of the tree that is in the depth range is   *)
(* yielded: the later siblings of the directory and their subtrees too.     *)
(***************************************************************************)
AfterDirectory(s) == s.op = "next" /\ s.r.some /\ IsDirEntry(s.r.v)

SkippedDirs ==
    { skips[i].r.v.v.path : i \in { j \in DOMAIN skips : AfterDirectory(skips[j]) } }

UnderSkipped(p) == \E d \in SkippedDirs : IsProperPrefix(d, p)

LoopAncestors(f, p) ==
    IF Len(p) >= 2 /\ FileSystems[f][Last(p)].kind = "link"
    THEN { i \in 1..(Len(p) - 1) :
              ResolveIn(f, p[i]) = FileSystems[f][Last(p)].target }
    ELSE {}

\* The innermost of them, or 0
LoopAncestor(f, p) ==
    IF LoopAncestors(f, p) = {} THEN 0
    ELSE CHOOSE i \in LoopAncestors(f, p) : \A j \in LoopAncestors(f, p) : j <= i

IsLoopLink(p) == LoopAncestor(fsys, p) # 0

LoopErrorsFor(p) ==
    { k \in DOMAIN out : ~out[k].ok /\ out[k].e.kind = "loop" /\ out[k].e.child = p }

\* The paths of the children of the directories yielded so far
ChildrenOfYielded ==
    UNION { { Append(out[k].v.path, KidsIn(fsys, ResolveIn(fsys, Last(out[k].v.path)))[i]) :
                i \in DOMAIN KidsIn(fsys, ResolveIn(fsys, Last(out[k].v.path))) } :
            k \in { j \in DOMAIN out : IsDirEntry(out[j]) } }

C11_LoopLinkIsOneError ==
    (it.opts.follow_links /\ ~it.opts.yield_loop_links) =>
        /\ \A k \in DOMAIN out :
              /\ ~(out[k].ok /\ IsLoopLink(out[k].v.path))
              /\ \A n \in 1..(Len(ItemPath(out[k])) - 1) :
                    ~IsLoopLink(SubSeq(ItemPath(out[k]), 1, n))
              /\ (~out[k].ok /\ out[k].e.kind = "loop" /\ IsLoopLink(out[k].e.child))
                    => /\ Cardinality(LoopErrorsFor(out[k].e.child)) = 1
                       /\ out[k].e.ancestor =
                             SubSeq(out[k].e.child, 1,
                                    LoopAncestor(fsys, out[k].e.child))
        /\ (done /\ nskips = 0 /\ NoLimits /\ ~it.opts.same_file_system)
              => \A p \in ChildrenOfYielded :
                    IsLoopLink(p) => LoopErrorsFor(p) # {}

(***************************************************************************)
(* C12: with follow_links and yield_loop_links, a symbolic link whose       *)
(* target is a directory on its own ancestor chain is yielded as an entry   *)
(* once, nothing is yielded below it, and no error is yielded for it; a     *)
(* walk run to its end that yielded the directory holding the link has      *)
(* yielded the link.                                                        *)
(***************************************************************************)
EntriesFor(p) == { k \in DOMAIN out : out[k].ok /\ out[k].v.path = p }

C12_LoopLinkIsOneEntry ==
    (it.opts.follow_links /\ it.opts.yield_loop_links) =>
        /\ \A k \in DOMAIN out :
              /\ IsLoopLink(ItemPath(out[k]))
                    => (out[k].ok /\ Cardinality(EntriesFor(out[k].v.path)) = 1)
              /\ \A n \in 1..(Len(ItemPath(out[k])) - 1) :
                    ~IsLoopLink(SubSeq(ItemPath(out[k]), 1, n))
        /\ (done /\ it.opts.content_filter = "None")
              => \A p \in ChildrenOfYielded :
                    IsLoopLink(p) => EntriesFor(p) # {}

(***************************************************************************)
(* C13: an entry that cannot be stat-ed and a directory below the root      *)
(* that cannot be opened are each yielded as one error, and the walk goes   *)
(* on: run to its end it has yielded, once each, every entry of the tree    *)
(* but the ones that cannot be stat-ed, the later siblings of the failing   *)
(* entries and their subtrees too, and siblings come in backend order when  *)
(* nothing reorders them.                                                   *)
(***************************************************************************)
\* The tree the backend lets a walk see: nothing below a directory that
\* cannot be opened
RECURSIVE SeenBelow(_, _)
SeenBelow(f, p) ==
    LET n == AllFileSystems[f][Last(p)]
        kids == IF n.kind = "dir" /\ n.fails = "none" THEN n.kids ELSE <<>>
    IN  UNION { { Append(p, kids[i]) } \cup SeenBelow(f, Append(p, kids[i])) :
                i \in DOMAIN kids }

SeenTreeOf ==
    [f \in DOMAIN AllFileSystems |-> { << 1 >> } \cup SeenBelow(f, << 1 >>)]

FailingOf ==
    [f \in DOMAIN AllFileSystems |->
        { p \in SeenTreeOf[f] : AllFileSystems[f][Last(p)].fails # "none" }]

UnstatableOf ==
    [f \in DOMAIN AllFileSystems |->
        { p \in SeenTreeOf[f] : AllFileSystems[f][Last(p)].fails = "stat" }]

ErrorsFor(p) == { k \in DOMAIN out : ~out[k].ok /\ out[k].e.child = p }

OkPaths == { out[k].v.path : k \in { j \in DOMAIN out : out[j].ok } }

\* The place of node n among the children of its parent, in backend order
RankIn(f, parent, n) ==
    CHOOSE i \in DOMAIN AllFileSystems[f][parent].kids :
        AllFileSystems[f][parent].kids[i] = n

\* p comes before q in a pre-order walk in backend order
BackendBefore(f, p, q) ==
    \/ IsProperPrefix(p, q)
    \/ \E n \in 1..(Min(Len(p), Len(q)) - 1) :
          /\ SubSeq(p, 1, n) = SubSeq(q, 1, n)
          /\ p[n + 1] # q[n + 1]
          /\ RankIn(f, p[n], p[n + 1]) < RankIn(f, p[n], q[n + 1])

C13_ErrorsDoNotEndTheWalk ==
    AllFileSystems[fsys][1].fails = "none" =>
        /\ \A k \in DOMAIN out :
              ~out[k].ok => /\ out[k].e.child \in FailingOf[fsys]
                            /\ Cardinality(ErrorsFor(out[k].e.child)) = 1
        /\ \A k \in DOMAIN out : Cardinality(EntriesFor(ItemPath(out[k]))) <= 1
        /\ (it.opts.sorter = "None" /\ it.opts.content_order = "None"
             /\ ~it.opts.contents_first)
              => \A j, k \in DOMAIN out :
                    (j < k /\ out[j].ok /\ out[k].ok)
                        => BackendBefore(fsys, out[j].v.path, out[k].v.path)
        /\ done => /\ OkPaths = SeenTreeOf[fsys] \ UnstatableOf[fsys]
                    /\ \A p \in FailingOf[fsys] : ErrorsFor(p) # {}

\* a walk has ended that met an entry it could not stat and a directory it
\* could not open, and yielded the last sibling of both
C13_Witness ==
    /\ done /\ fsys = Len(FileSystems) + 3
    /\ ErrorsFor(<< 1, 2, 3 >>) # {} /\ ErrorsFor(<< 1, 2, 4 >>) # {}
    /\ << 1, 2, 6 >> \in OkPaths /\ << 1, 7 >> \in OkPaths

(***************************************************************************)
(* C14: when the root cannot be stat-ed or opened, the walk yields one      *)
(* error, for the root, and ends: no entry is yielded and no state is left  *)
(* on the stack.                                                            *)
(***************************************************************************)
C14_RootFailureIsFatal ==
    AllFileSystems[fsys][1].fails # "none" =>
        /\ Len(out) <= 1
        /\ \A k \in DOMAIN out : ~out[k].ok /\ out[k].e.child = << 1 >>
        /\ last.op = "next" => (Len(out) = 1 /\ it.states = <<>>)

(***************************************************************************)
(* C15: with content_order = DirsFirst, among the children of one directory *)
(* every directory comes before every entry that is not a directory: in a   *)
(* pre-order walk the directory is yielded before it, and with              *)
(* contents_first (the directory is pushed then, and yielded after its      *)
(* contents) everything below the directory is yielded before it.  With     *)
(* FilesFirst it is the other way round.  The backend order does not        *)
(* matter.                                                                  *)
(***************************************************************************)
Siblings(p, q) ==
    Len(p) = Len(q) /\ Len(p) >= 2 /\ Front(p) = Front(q) /\ p # q

\* out[j] is the directory d, or with contents_first something below d
OfDirectory(j, d) ==
    IF it.opts.contents_first
    THEN IsProperPrefix(d, ItemPath(out[j]))
    ELSE IsDirEntry(out[j]) /\ out[j].v.path = d

IsFileEntry(x) == x.ok /\ ~is_dir(x.v)

C15_ContentOrder ==
    /\ it.opts.content_order = "DirsFirst" =>
          \A i, j \in DOMAIN out :
             \A n \in 2..Len(ItemPath(out[j])) :
                (/\ IsFileEntry(out[i])
                 /\ Siblings(out[i].v.path, SubSeq(ItemPath(out[j]), 1, n))
                 /\ OfDirectory(j, SubSeq(ItemPath(out[j]), 1, n))) => j < i
    /\ it.opts.content_order = "FilesFirst" =>
          \A i, j \in DOMAIN out :
             \A n \in 2..Len(ItemPath(out[j])) :
                (/\ IsFileEntry(out[i])
                 /\ Siblings(out[i].v.path, SubSeq(ItemPath(out[j]), 1, n))
                 /\ OfDirectory(j, SubSeq(ItemPath(out[j]), 1, n))) => i < j

\* the backend lists a file between two directories, and a walk with
\* DirsFirst has yielded the second directory and its content before the file
C15_Witness ==
    /\ fsys = 2 /\ it.opts.content_order = "DirsFirst" /\ done
    /\ it.opts.content_filter = "None"
    /\ \E i, j \in DOMAIN out :
          /\ j < i
          /\ out[j].ok /\ out[j].v.path = << 1, 7, 8 >>
          /\ out[i].ok /\ out[i].v.path = << 1, 6 >>

(***************************************************************************)
(* C16 as stated: with a sorter, the entries of one directory are yielded   *)
(* in non-decreasing order of the comparator, whatever the backend order    *)
(* and max_open are.                                                        *)
(***************************************************************************)
InCmpOrder(i, j) ==
    call_cmp(out[i].v, out[j].v, it.opts.sorter) # "Greater"

C16_SortedSiblings ==
    it.opts.sorter # "None" =>
        \A i, j \in DOMAIN out :
            (i < j /\ out[i].ok /\ out[j].ok
             /\ Siblings(out[i].v.path, out[j].v.path)) => InCmpOrder(i, j)

(***************************************************************************)
(* C16 amended: with a sorter, the entries of one directory that            *)
(* content_order puts in the same pass (all of them with                    *)
(* ContentOrder::None; the directories, and the other entries, with         *)
(* DirsFirst and FilesFirst) are yielded in non-decreasing order of the     *)
(* comparator, whatever the backend order and max_open are.                 *)
(***************************************************************************)
SamePass(x, y) ==
    it.opts.content_order = "None" \/ (is_dir(x.v) <=> is_dir(y.v))

C16_SortedSiblingsOfAPass ==
    it.opts.sorter # "None" =>
        \A i, j \in DOMAIN out :
            (i < j /\ out[i].ok /\ out[j].ok
             /\ Siblings(out[i].v.path, out[j].v.path)
             /\ SamePass(out[i], out[j])) => InCmpOrder(i, j)

\* the backend lists the children of the root in ascending order and a walk
\* sorted in descending order has yielded the last of them before the first
C16_Witness ==
    /\ fsys = 2 /\ it.opts.sorter = "desc" /\ it.opts.max_open = 1 /\ done
    /\ \E i, j \in DOMAIN out :
          /\ i < j
          /\ out[i].ok /\ out[i].v.path = << 1, 7 >>
          /\ out[j].ok /\ out[j].v.path = << 1, 2 >>

(***************************************************************************)
(* C17: the FilterEntry over the position stream never hands an error to    *)
(* the predicate, and returns every error its inner iterator returned,      *)
(* whatever the predicate answers for errors.                               *)
(***************************************************************************)
ErrorsOf(items) == SelectSeq(items, LAMBDA x : ~x.ok)

C17_ErrorsBypassPredicate ==
    /\ \A k \in DOMAIN fe.shown : fe.shown[k].ok
    /\ ErrorsOf(fe.out) = ErrorsOf(fe.pulled)

(***************************************************************************)
(* C18: in a pre-order walk through filter_entry(p), an entry p rejects is  *)
(* never yielded, and nothing below a rejected directory is yielded or      *)
(* handed to p; a walk run to its end has yielded every other entry p       *)
(* accepts, the later siblings of a rejected directory too.  Checked for    *)
(* the FilterEntry over the position stream and for ClassicFilterEntry.     *)
(***************************************************************************)
Rejected(p) == Last(p) \in pred.reject

\* some directory on the way to p, p left out, is rejected
BelowRejectedDir(p) ==
    \E n \in 1..(Len(p) - 1) :
        /\ p[n] \in pred.reject
        /\ AllFileSystems[fsys][p[n]].kind = "dir"

\* the entries an unfiltered walk of the file system yields
WalkTreeOf ==
    [f \in DOMAIN AllFileSystems |->
        IF f <= Len(FileSystems) THEN TreeOf[f]
        ELSE SeenTreeOf[f] \ UnstatableOf[f]]

EntryPathsOf(items) ==
    { items[k].v.path : k \in { j \in DOMAIN items : items[j].ok } }

FilterPrunes(a) ==
    /\ \A k \in DOMAIN a.out : a.out[k].ok => ~Rejected(a.out[k].v.path)
    /\ \A k \in DOMAIN a.pulled : ~BelowRejectedDir(ItemPath(a.pulled[k]))
    /\ (a.done /\ ~it.opts.follow_links)
          => EntryPathsOf(a.out) =
                { q \in WalkTreeOf[fsys] : ~Rejected(q) /\ ~BelowRejectedDir(q) }

C18_FilterPrunesSubtree ==
    ~it.opts.contents_first => (FilterPrunes(fe) /\ FilterPrunes(cfe))

\* the first directory of the root was rejected, and the walk has ended
\* and yielded what is below its sibling directory
C18_Witness ==
    /\ ~it.opts.contents_first /\ fsys = 2 /\ pred.reject = { 2 }
    /\ cfe.done /\ fe.done
    /\ << 1, 7, 8 >> \in EntryPathsOf(cfe.out)
    /\ << 1, 7, 8 >> \in EntryPathsOf(fe.out)
    /\ \E k \in DOMAIN cfe.shown : cfe.shown[k].v.path = << 1, 2 >>

(***************************************************************************)
(* C19: with contents_first, the items filter_entry(p) returns are the      *)
(* items Iterator::filter(p) keeps of the unfiltered walk, in the same      *)
(* order: a rejected directory takes nothing but its own entry away.        *)
(***************************************************************************)
IteratorFilter(items) ==
    SelectSeq(items, LAMBDA x : ~x.ok \/ accepts(pred, x.v))

C19_SameAsIteratorFilter ==
    (it.opts.contents_first /\ done /\ cfe.done)
        => cfe.out = IteratorFilter(out)

(***************************************************************************)
(* C20: a content filter prunes nothing.  With FilesOnly no directory is    *)
(* yielded as an entry, and the walk run to its end has yielded the         *)
(* entries that are not directories exactly as the walk with                *)
(* ContentFilter::None does, at every depth; with DirsOnly only             *)
(* directories are yielded as entries, the same ones in the same order as   *)
(* with ContentFilter::None.                                                *)
(***************************************************************************)
Ended(c) == ~c.start /\ c.states = <<>> /\ c.deferred_dirs = <<>>

DirectoriesOf(items) == SelectSeq(items, LAMBDA x : x.ok /\ is_dir(x.v))
OthersOf(items) == SelectSeq(items, LAMBDA x : x.ok /\ ~is_dir(x.v))

C20_FilterPrunesNothing ==
    /\ it.opts.content_filter = "FilesOnly" =>
          /\ DirectoriesOf(out) = <<>>
          /\ (done /\ Ended(ref)) => OthersOf(out) = OthersOf(rout)
    /\ it.opts.content_filter = "DirsOnly" =>
          /\ OthersOf(out) = <<>>
          /\ (done /\ Ended(ref)) => DirectoriesOf(out) = DirectoriesOf(rout)


(***************************************************************************)
(* C22 as stated.  With same_file_system every entry below the start path   *)
(* whose device number differs from that of the start path is skipped       *)
(* entirely: it is never yielded, never pushed, and never stored as a       *)
(* record of its parent (so that clone_all_content cannot return it); the   *)
(* start path itself is never pruned.                                       *)
(***************************************************************************)
\* the device number of an entry: that of the link for a link that was not
\* followed, that of the target otherwise
EntryDevice(dent) ==
    IF is_symlink(dent) THEN Node(Last(dent.path)).dev ELSE device_num(dent.path)

RootDevice == device_num(<< 1 >>)

OffDevice(dent) == Depth(dent) > 0 /\ EntryDevice(dent) # RootDevice

\* an entry the claim takes to be skipped: any one off the device of the
\* start path, or (dirs_only) any directory off it
CrossesOver(dent, dirs_only) == OffDevice(dent) /\ (dirs_only => is_dir(dent))

RecordsOf(c) ==
    UNION { { c.states[i].content.content[j] :
                j \in DOMAIN c.states[i].content.content } :
            i \in DOMAIN c.states }

SkippedEntirely(dirs_only) ==
    it.opts.same_file_system =>
       /\ \A i \in DOMAIN out : out[i].ok => ~CrossesOver(out[i].v, dirs_only)
       /\ \A i \in DOMAIN it.deferred_dirs :
             ~CrossesOver(it.deferred_dirs[i], dirs_only)
       /\ \A i \in DOMAIN it.read_dir_calls :
             device_num(it.read_dir_calls[i]) = RootDevice
       /\ \A rec \in RecordsOf(it) :
             rec.flat.ok => ~CrossesOver(rec.flat.v.raw, dirs_only)
       /\ (~it.start /\ metadata(<< 1 >>) = "dir") =>
             (it.read_dir_calls # <<>> /\ it.read_dir_calls[1] = << 1 >>)

UnopenableOf ==
    [f \in DOMAIN AllFileSystems |->
        { p \in SeenTreeOf[f] :
            Len(p) > 1 /\ AllFileSystems[f][Last(p)].fails = "read_dir" }]

\* the entries of the directory p is in that come after p in backend order
LaterSiblings(f, p) ==
    LET kids == AllFileSystems[f][p[Len(p) - 1]].kids
    IN  { Append(Front(p), kids[i]) :
            i \in { j \in DOMAIN kids : j > RankIn(f, p[Len(p) - 1], Last(p)) } }

C27_FailedPushLeavesNothing ==
    /\ \A p \in UnopenableOf[fsys] : Cardinality(ErrorsFor(p)) <= 1
    /\ \A i \in DOMAIN it.states : it.states[i].content.rd.kind # "Error"
    /\ \A i \in DOMAIN it.states_path :
          it.states_path[i].path \notin UnopenableOf[fsys]
    /\ done => \A p \in UnopenableOf[fsys] :
                  /\ Cardinality(ErrorsFor(p)) = 1
                  /\ \A q \in LaterSiblings(fsys, p) :
                        q \in OkPaths \/ ErrorsFor(q) # {}


(***************************************************************************)
(* C28 as stated.  With follow_links the ancestor stack has one element     *)
(* less than the state stack after every pull and every skip_current_dir    *)
(* (the state of the start path has no ancestor); without follow_links the  *)
(* ancestor stack is always empty.                                          *)
(***************************************************************************)
C28_AncestorsOneLess ==
    IF it.opts.follow_links
    THEN it.states # <<>> => Len(it.states_path) = Len(it.states) - 1
    ELSE it.states_path = <<>>

(***************************************************************************)
(* C28 amended.  With follow_links the ancestor stack has as many elements  *)
(* as the state stack after every pull and every skip_current_dir, the      *)
(* i-th ancestor being that of the directory the i-th state reads (the      *)
(* state of the start path has its ancestor too); without follow_links the  *)
(* ancestor stack is always empty.                                          *)
(***************************************************************************)
C28_AncestorsMatchStates ==
    IF it.opts.follow_links
    THEN /\ Len(it.states_path) = Len(it.states)
         /\ \A i \in DOMAIN it.states :
               /\ it.states_path[i].handle = get_handle(it.states_path[i].path)
               /\ Len(it.states_path[i].path) = it.states[i].depth
               /\ it.states[i].content.rd.kind = "Opened"
                     => it.states[i].content.rd.rd.dir = it.states_path[i].path
    ELSE it.states_path = <<>>

\* skip_current_dir has just popped a state below which two more are left,
\* in a walk that follows links
C28_Witness ==
    /\ it.opts.follow_links
    /\ last.op = "skip"
    /\ Len(it.states) >= 2
    /\ Len(it.read_dir_calls) >= 4


(***************************************************************************)
(* C29: 0 <= oldest_opened <= states.len() in every state of the driver,    *)
(* after every push and pop within a pull too: pop clamps oldest_opened to  *)
(* the new length of the stack, the difference states.len() - oldest_opened *)
(* never underflows, the increment never overflows, and when push finds     *)
(* the ceiling reached oldest_opened is the index of a state.               *)
(***************************************************************************)
C29_OldestOpenedInRange ==
    /\ it.in_range
    /\ it.oldest_opened \in 0..Len(it.states)
    /\ it.oldest_opened + 1 <= UsizeMax
    /\ Len(it.states) - it.oldest_opened = it.opts.max_open
          => it.oldest_opened + 1 \in DOMAIN it.states

\* pop has clamped oldest_opened: with one stream open at a time every push
\* below the start path has moved oldest_opened on, and the stack is back
\* at a length below the number of pushes
C29_Witness ==
    /\ it.opts.max_open = 1
    /\ it.states # <<>>
    /\ it.oldest_opened = Len(it.states)
    /\ Len(it.read_dir_calls) >= Len(it.states) + 2


(***************************************************************************)
(* C30 as stated.  load_all_and_sort leaves the buffer with every record    *)
(* that failed after all the successful ones, the successful ones in cmp    *)
(* order, the failed ones in their backend order, and the cursor before     *)
(* the beginning.  Checked on the buffers the walks with a sorter hold      *)
(* (sorted when their state was made) and on what load_all_and_sort makes   *)
(* of every buffer a walk holds.                                            *)
(***************************************************************************)
\* records i < j of a buffer are in the order claimed; errors_first tells
\* on which side of the successful records the failed ones are expected
InSortedOrder(a, b, cmp, errors_first) ==
    CASE a.flat.ok /\ b.flat.ok ->
            call_cmp(a.flat.v.raw, b.flat.v.raw, cmp) # "Greater"
      [] ~a.flat.ok /\ ~b.flat.ok ->
            LET p == a.flat.e.child
                q == b.flat.e.child
            IN  RankIn(fsys, p[Len(p) - 1], Last(p))
                   < RankIn(fsys, q[Len(q) - 1], Last(q))
      [] a.flat.ok /\ ~b.flat.ok -> ~errors_first
      [] ~a.flat.ok /\ b.flat.ok -> errors_first

SortedBuffer(content, cmp, errors_first) ==
    \A i, j \in DOMAIN content :
        i < j => InSortedOrder(content[i], content[j], cmp, errors_first)

SortsBuffers(errors_first) ==
    \A i \in DOMAIN it.states :
        /\ it.opts.sorter # "None"
              => SortedBuffer(it.states[i].content.content, it.opts.sorter,
                              errors_first)
        /\ \A cmp \in {"asc", "desc"} :
              LET dc == load_all_and_sort(it.states[i].content, cmp, it)
              IN  /\ SortedBuffer(dc.content, cmp, errors_first)
                  /\ dc.current_pos = None
                  /\ dc.rd.kind \in {"Closed", "Error"}
                  /\ Len(dc.content) >= Len(it.states[i].content.content)

C30_FailedRecordsLast == SortsBuffers(FALSE)

(***************************************************************************)
(* C30 amended.  load_all_and_sort leaves the buffer with every record      *)
(* that failed before all the successful ones, the successful ones in cmp   *)
(* order, the failed ones in their backend order, and the cursor before     *)
(* the beginning.                                                           *)
(***************************************************************************)
C30_FailedRecordsFirst == SortsBuffers(TRUE)

\* a walk with a sorter holds a sorted buffer with two records that failed
\* and two successful ones
C30_Witness ==
    /\ it.opts.sorter # "None"
    /\ \E i \in DOMAIN it.states :
          LET content == it.states[i].content.content IN
          /\ Cardinality({ j \in DOMAIN content : ~content[j].flat.ok }) >= 2
          /\ Cardinality({ j \in DOMAIN content : content[j].flat.ok }) >= 2


(***************************************************************************)
(* C21: with content_filter = SkipAll no Entry is ever yielded, of a file   *)
(* or of a directory: where nothing fails the position stream holds only    *)
(* BeforeContent and AfterContent.  Every directory is still entered: run   *)
(* to its end, the stream has the BeforeContent and AfterContent positions  *)
(* of the walk without filter, in the same order.                           *)
(***************************************************************************)
\* the driver of the position stream has returned, or will return, None
DriverEnded(c) ==
    /\ ~c.start
    /\ \/ c.states = <<>>
       \/ Len(c.states) = 1 /\ c.states[1].position = "AfterContent"

Brackets(items) ==
    SelectSeq(items, LAMBDA x : x.pos \in {"BeforeContent", "AfterContent"})

NothingFails == \A n \in DOMAIN AllFileSystems[fsys] : Node(n).fails = "none"

Shown(x) ==
    CASE x.pos = "Entry" -> << "Entry", x.dent.path >>
      [] x.pos = "BeforeContent" ->
            << "BeforeContent", IF x.dent.some THEN x.dent.v.path ELSE <<>> >>
      [] x.pos = "Error" -> << "Error" >>
      [] x.pos = "AfterContent" -> << "AfterContent" >>

ShownStream == [k \in DOMAIN out |-> Shown(out[k])]

\* the positions of d and of what it holds
ScenarioDir ==
    << << "Entry", << 1, 3 >> >>, << "BeforeContent", << 1, 3 >> >>,
       << "Entry", << 1, 3, 4 >> >>, << "AfterContent" >> >>

\* the positions of what r holds, in the backend order of the file system
ScenarioContent ==
    IF AllFileSystems[fsys] = FsScenario
    THEN << << "Entry", << 1, 2 >> >> >> \o ScenarioDir
    ELSE ScenarioDir \o << << "Entry", << 1, 2 >> >> >>

InScenario ==
    /\ AllFileSystems[fsys] \in {FsScenario, FsScenarioDirFirst}
    /\ it.opts = DefaultOptions

CursorEntry(c) == get_current_rec(Last(c.states).content).flat.v.raw

\* the pull that starts in c handles, first of all, the entry of a directory
\* that will be recursed into, with transition = None
HandlesDirEntry(c) ==
    /\ ~c.start /\ c.states # <<>>
    /\ c.transition = "None"
    /\ LET pos == get_current_position(Last(c.states))
       IN  /\ pos.kind = "Entry"
           /\ descends(c, pos.flat.raw)
           /\ may_push(c, pos)

AfterOfs ==
    LET afters == SelectSeq(out, LAMBDA x : x.pos = "AfterContent")
    IN  [k \in DOMAIN afters |-> afters[k].of]

\* the AfterContent that is reported and whose state is not popped yet
PendingAfter ==
    IF it.transition = "BeforePopUp" THEN << parent_entry(it) >> ELSE <<>>

\* every AfterContent stands for one pop, in the order of the pops, and
\* every state pushed is on the stack or was popped once
OneAfterPerState ==
    /\ AfterOfs = it.popped \o PendingAfter
    /\ \A k \in DOMAIN it.popped :
          /\ it.popped[k].some
          /\ \E j \in DOMAIN it.read_dir_calls :
                it.read_dir_calls[j] = it.popped[k].v.path
    /\ \A j, k \in DOMAIN it.popped : it.popped[j] = it.popped[k] => j = k
    /\ \A j, k \in DOMAIN it.read_dir_calls :
          it.read_dir_calls[j] = it.read_dir_calls[k] => j = k
    /\ it.states # <<>> =>
          Len(it.popped) + Len(it.states) - 1 = Len(it.read_dir_calls)
    /\ done => Len(it.popped) = Len(it.read_dir_calls)

\* the cursor of the state at index p has moved past the entry dir
CursorPast(c, p, dir) ==
    LET ps == c.states[p]
        rec == get_current_rec(ps.content)
    IN  \/ ps.position = "AfterContent"
        \/ /\ ps.position = "Entry"
           /\ rec.flat.ok => rec.flat.v.raw # dir.v

Unnested == << << 0 >> >>

\* the directories open after the position x, open being those before it
NestStep(open, x) ==
    IF open = Unnested THEN Unnested
    ELSE CASE x.pos = "BeforeContent" ->
                 IF x.dent.some THEN Append(open, x.dent.v.path) ELSE Unnested
           [] x.pos = "AfterContent" ->
                 IF open # <<>> /\ x.of.some /\ Last(open) = x.of.v.path
                 THEN Front(open) ELSE Unnested
           [] x.pos = "Entry" ->
                 IF Len(x.dent.path) = 1
                 THEN IF open = <<>> THEN open ELSE Unnested
                 ELSE IF open # <<>> /\ Last(open) = Front(x.dent.path)
                      THEN open ELSE Unnested
           [] x.pos = "Error" ->
                 IF open = <<>>
                 THEN IF Len(x.err.child) = 1 THEN open ELSE Unnested
                 ELSE IF Last(open) = Front(x.err.child)
                         \/ Last(open) = x.err.child
                      THEN open ELSE Unnested

RECURSIVE OpenAfter(_, _)
OpenAfter(items, k) ==
    IF k = 0 THEN <<>> ELSE NestStep(OpenAfter(items, k - 1), items[k])

OpenedOnce(items) ==
    \A j, k \in DOMAIN items :
        (items[j].pos = "BeforeContent" /\ items[j] = items[k]) => j = k

BackendItems(l) == Node(Resolve(Last(l.dir))).kids

\* the backend items taken so far are the first ones of the directory, each
\* once, and the stream holds the others
ReadOnce(l) ==
    /\ Len(l.reads) <= Len(BackendItems(l))
    /\ l.reads = SubSeq(BackendItems(l), 1, Len(l.reads))
    /\ l.dc.rd.kind = "Opened" =>
          l.reads \o l.dc.rd.rd.rest = BackendItems(l)
    /\ Len(l.dc.content) <= Len(l.reads) + 1

\* the buffer after a call holds the records it held, at their indices
BufferKept(dc, dc2) ==
    /\ Len(dc2.content) >= Len(dc.content)
    /\ \A i \in DOMAIN dc.content : dc2.content[i] = dc.content[i]

NextPos(dc) == IF dc.current_pos # None THEN dc.current_pos + 1 ELSE 0

CursorMoved(dc, dc2, call) ==
    CASE call.op = "get_next_rec" ->
            IF call.r.some
            THEN dc2.current_pos = NextPos(dc) /\ NextPos(dc) < Len(dc2.content)
            ELSE dc2.current_pos = dc.current_pos
      [] call.op = "rewind" -> dc2.current_pos = None
      [] OTHER -> dc2.current_pos = dc.current_pos

C31_BufferAppendOnly ==
    /\ []ReadOnce(it)
    /\ [][/\ BufferKept(it.dc, it'.dc)
          /\ CursorMoved(it.dc, it'.dc, last')]_vars

\* after records were read one by one, the cursor was reset, load_all took
\* the rest of the stream and the cursor has advanced again
C31_Witness ==
    /\ last.op = "get_next_rec" /\ last.r.some
    /\ it.dc.rd.kind = "Closed"
    /\ Len(it.reads) >= 3
    /\ Len(out) >= 3
    /\ it.dc.current_pos = 0
    /\ Len(ref.dc.content) < Len(it.dc.content)


(***************************************************************************)
(* C32: once get_next_rec has returned None for a loader, the source of     *)
(* the loader is closed and the backend stream is never read again: after   *)
(* rewind a complete scan returns the buffered records in index order and   *)
(* then None, without any read of the backend.                              *)
(***************************************************************************)
C32_ExhaustedSourceClosed ==
    it.exhausted =>
        /\ it.dc.rd.kind # "Opened"
        /\ it.late_polls = 0

\* what does hold: after None the buffer and the items read stay as they
\* are, and every record returned is the one at the next index
C32_ExhaustedStaysExhausted ==
    [][it.exhausted =>
          /\ it'.dc.content = it.dc.content
          /\ it'.reads = it.reads
          /\ (last'.op = "get_next_rec" /\ last'.r.some) =>
                last'.r.v.rec = it.dc.content[NextPos(it.dc) + 1]
          /\ (last'.op = "get_next_rec" /\ ~last'.r.some) =>
                NextPos(it.dc) = Len(it.dc.content)]_vars


(***************************************************************************)
(* C33: a loader made by new for a directory that cannot be opened holds    *)
(* the error of opening: the error is yielded exactly once, as a single     *)
(* error record made by get_next_rec or by load_all, and from then on the   *)
(* source yields nothing, as for an empty directory; the error is never     *)
(* yielded by the source again and the backend is never read.               *)
(***************************************************************************)
\* the loader was made by new for a directory the backend refuses to open
OpenFailed(l) ==
    /\ ~l.once
    /\ Node(Resolve(Last(l.dir))).fails = "read_dir"

OpenError(l) == [kind |-> "io", child |-> l.dir]

Presented == { k \in DOMAIN out : out[k].pos.kind \in {"Entry", "Error"} }

RecordAt(k) == it.ds.content.content[out[k].at + 1]

TwoPasses == it.c.opts.content_order # "None"

C34_EachRecordInOnePass ==
    TwoPasses =>
        /\ out = <<>> => it.ds.pass = "First"
        /\ \A k \in Presented :
              /\ can_be_yielded(RecordAt(k))
              /\ out[k].pass \in {"First", "Second"}
              /\ out[k].pass = "First" <=> RecordAt(k).first_pass
              /\ out[k].pos.kind = "Error" => out[k].pass = "Second"
        /\ \A j, k \in DOMAIN out :
              (j < k /\ out[j].pass = "Second") => out[k].pass = "Second"
        /\ \A j, k \in Presented : out[j].at = out[k].at => j = k
        /\ \A j, k \in Presented :
              (j < k /\ out[j].pass = out[k].pass) => out[j].at < out[k].at
        /\ (~it.skipped /\ it.ds.position = "AfterContent") =>
              /\ it.ds.pass = "Second"
              /\ \A i \in DOMAIN it.ds.content.content :
                    can_be_yielded(it.ds.content.content[i]) =>
                       \E k \in Presented : out[k].at = i - 1

\* a directory of two passes was scanned to its end: a record of the first
\* pass came after a rewind before a record it follows in the buffer, and
\* an error record was presented in the second pass
C34_Witness ==
    /\ TwoPasses /\ ~it.skipped
    /\ it.ds.position = "AfterContent"
    /\ \E j, k \in Presented :
          /\ j < k /\ out[k].at < out[j].at
          /\ out[j].pass = "First" /\ out[k].pass = "Second"
    /\ \E k \in Presented : out[k].pos.kind = "Error"


(***************************************************************************)
(* C35: the position of a state only moves forward along BeforeContent,     *)
(* Entry, AfterContent: next_position on a state at AfterContent leaves     *)
(* position, pass, cursor and buffer as they are and reads nothing from the *)
(* backend, so after skip_all no later next_position leaves AfterContent.   *)
(***************************************************************************)
PositionRank(ds) ==
    CASE ds.position = "BeforeContent" -> 0
      [] ds.position = "Entry" -> 1
      [] ds.position = "AfterContent" -> 2

NextPositionAtEnd ==
    it.ds.position = "AfterContent" /\ last'.op = "next_position"

C35_PositionForwardOnly ==
    /\ [](it.skipped => it.ds.position = "AfterContent")
    /\ [][/\ PositionRank(it.ds) <= PositionRank(it'.ds)
          /\ NextPositionAtEnd => it'.ds = it.ds]_vars

\* next_position was called on a state that skip_all had ended while
\* records were still unread in the backend
C35_Witness ==
    /\ it.skipped
    /\ last.op = "next_position"
    /\ it.ds.content.rd.kind = "Opened"
    /\ StreamRest(it.ds.content.rd) # <<>>


(***************************************************************************)
(* C36: load_all leaves the cursor of the loader, the position and the pass *)
(* of the state and every record already in the buffer as they are, and     *)
(* only appends the backend items not yet read, in backend order; so what   *)
(* later calls present is what they present when load_all was never called. *)
(* The twin state ref receives every call but load_all and                  *)
(* clone_all_content.                                                       *)
(***************************************************************************)
LoadAllCalled == last'.op = "load_all"

LoadAllFrame ==
    LoadAllCalled =>
        /\ it'.ds.position = it.ds.position
        /\ it'.ds.pass = it.ds.pass
        /\ it'.ds.content.current_pos = it.ds.content.current_pos
        /\ BufferKept(it.ds.content, it'.ds.content)
        /\ it'.ds.content.rd.kind # "Opened"

SameAsWithoutLoadAll ==
    /\ out = rout
    /\ it.ds.position = ref.ds.position
    /\ it.ds.pass = ref.ds.pass
    /\ it.ds.content.current_pos = ref.ds.content.current_pos
    /\ BufferKept(ref.ds.content, it.ds.content)
    /\ (~ref.skipped /\ ref.ds.position = "AfterContent") =>
          it.ds.content.content = ref.ds.content.content

Cloned == last.op = "clone_all_content"

Matches(filter, flat) ==
    CASE filter = "None" -> TRUE
      [] filter = "DirsOnly" -> flat.is_dir
      [] filter = "FilesOnly" -> ~flat.is_dir
      [] filter = "SkipAll" -> FALSE

\* the records of the buffer that are no errors and match filter, in order
MatchingOfBuffer(dc, filter) ==
    LET m == SelectSeq(dc.content,
                       LAMBDA rec : rec.flat.ok /\ Matches(filter, rec.flat.v))
    IN  [i \in DOMAIN m |-> m[i].flat.v.raw]

\* what clone_all_content returns on a state just made for the same
\* directory by a walk without content_order and without content_filter
ClonedOfPlainWalk(l, filter) ==
    LET c == IntoIter_new([l.c.opts EXCEPT !.content_order = "None",
                                           !.content_filter = "None"])
        ds == IF l.ds.depth = 0
              THEN DirState_new_once(l.dir, 0, c)
              ELSE DirState_new(from_path(l.dir, FALSE), Len(l.dir), c)
    IN  clone_all_content(ds, filter, c).r

CloneFrame ==
    last'.op = "clone_all_content" =>
        /\ it'.ds.position = it.ds.position
        /\ it'.ds.pass = it.ds.pass
        /\ it'.ds.content.current_pos = it.ds.content.current_pos

CloneResult ==
    Cloned =>
        /\ last.r.v.items = MatchingOfBuffer(it.ds.content, last.r.v.filter)
        /\ last.r.v.items = ClonedOfPlainWalk(it, last.r.v.filter)
        /\ it.ds.content.rd.kind # "Opened"

C37_CloneAllContent == []CloneResult /\ [][CloneFrame]_vars

\* DirsOnly was cloned from a walk of FilesOnly, directories first, in its
\* second pass with the cursor on a record, in a directory with a failing
\* entry; directories came back
C37_Witness ==
    /\ Cloned
    /\ last.r.v.filter = "DirsOnly"
    /\ last.r.v.items # <<>>
    /\ it.c.opts.content_filter = "FilesOnly"
    /\ it.c.opts.content_order = "DirsFirst"
    /\ it.ds.pass = "Second"
    /\ it.ds.position = "Entry"
    /\ \E i \in DOMAIN it.ds.content.content : ~it.ds.content.content[i].flat.ok


(***************************************************************************)
(* C39: whenever the position of a state is Entry, the cursor of its loader *)
(* is Some(p) with p below the length of the buffer, so                     *)
(* get_current_position and get_current_rec never unwrap a missing record,  *)
(* for every interleaving of next_position, get_current_position, load_all, *)
(* clone_all_content and skip_all, with or without a sorter and for every   *)
(* content_order.                                                           *)
(***************************************************************************)
CursorOnRecord(dc) ==
    /\ dc.current_pos # None
    /\ dc.current_pos >= 0
    /\ dc.current_pos < Len(dc.content)

C39_EntryHasRecord ==
    /\ it.ds.position = "Entry" => CursorOnRecord(it.ds.content)
    /\ Observed(it.ds).kind # "Panic"
    /\ last.op = "get_current_position" => last.r.v.kind # "Panic"

\* get_current_position returned an entry of a sorted directory after
\* load_all or clone_all_content had been called at that entry
C39_Witness ==
    /\ last.op = "get_current_position"
    /\ last.r.v.kind \in {"Entry", "Error"}
    /\ it.c.opts.sorter # "None"
    /\ it.c.opts.content_order # "None"
    /\ it.ds.pass = "Second"
    /\ it.ds.content.current_pos > 0

\* the same without a sorter, the source drained by load_all while the
\* twin state still reads it
C39_WitnessLazy ==
    /\ last.op = "get_current_position"
    /\ last.r.v.kind \in {"Entry", "Error"}
    /\ it.c.opts.sorter = "None"
    /\ it.ds.content.rd.kind = "Closed"
    /\ ref.ds.content.rd.kind = "Opened"


(***************************************************************************)
(* C38: each error record is surfaced as an Error position exactly once:    *)
(* the pull that surfaces it also moves the cursor past it, its wrapped     *)
(* error is consumed at that moment, and no later pull, the scan of the     *)
(* second ordering pass included, surfaces the same record again.           *)
(***************************************************************************)
ErrorPositions(items) == SelectSeq(items, LAMBDA x : x.pos = "Error")

IsTaken(rec) == ~rec.flat.ok /\ rec.flat.e = TakenError

\* the record at index i (from 0) of ds has been passed by the scan that
\* surfaces errors
PassedBy(ds, i) ==
    /\ ds.pass # "First"
    /\ ds.content.current_pos # None
    /\ \/ i < ds.content.current_pos
       \/ i = ds.content.current_pos /\ ds.position = "AfterContent"

\* in every state of the stack the error records taken are those the scan
\* has passed
TakenWhenPassed(c) ==
    \A d \in DOMAIN c.states :
        \A i \in DOMAIN c.states[d].content.content :
            ~c.states[d].content.content[i].flat.ok =>
                (IsTaken(c.states[d].content.content[i])
                    <=> PassedBy(c.states[d], i - 1))

SurfacedOnce ==
    /\ \A k \in DOMAIN out : out[k].pos = "Error" => out[k].err # TakenError
    /\ \A j, k \in DOMAIN ErrorPositions(out) :
          ErrorPositions(out)[j] = ErrorPositions(out)[k] => j = k
    /\ TakenWhenPassed(it)

ErrorPulled == last'.r.some /\ last'.r.v.pos = "Error" /\ it'.states # <<>>

\* the pull that returns an error leaves the state on top with one more
\* record taken and at a position that is not that record
SurfacingPullConsumes ==
    ErrorPulled =>
        LET ds == Last(it'.states)
        IN  /\ \E i \in DOMAIN ds.content.content :
                  /\ IsTaken(ds.content.content[i])
                  /\ PassedBy(ds, i - 1)
                  /\ \A j \in DOMAIN ds.content.content :
                        (j > i /\ PassedBy(ds, j - 1)) =>
                            ~can_be_yielded(ds.content.content[j])
                             \/ (ds.pass = "Second"
                                 /\ ds.content.content[j].first_pass)
            /\ get_current_position(ds).kind = "Error" =>
                  get_current_position(ds).err # TakenError

Larger(a, b) == IF a >= b THEN a ELSE b

BuilderClamps ==
    /\ last'.op = "min_depth" =>
          /\ it'.min_depth = Min(last'.arg, it.max_depth)
          /\ it'.max_depth = it.max_depth /\ it'.max_open = it.max_open
    /\ last'.op = "max_depth" =>
          /\ it'.max_depth = Larger(last'.arg, it.min_depth)
          /\ it'.min_depth = it.min_depth /\ it'.max_open = it.max_open
    /\ last'.op = "max_open" =>
          /\ it'.max_open = Larger(last'.arg, 1)
          /\ it'.min_depth = it.min_depth /\ it'.max_depth = it.max_depth

C40_BuilderKeepsOptionsValid ==
    /\ [](it.min_depth <= it.max_depth /\ it.max_open >= 1)
    /\ [][BuilderClamps]_vars

\* max_open(0) was called on options whose min_depth had been clamped down
\* to a max_depth set before
C40_Witness ==
    /\ last.op = "max_open" /\ last.arg = 0
    /\ it.max_open = 1
    /\ it.min_depth = it.max_depth
    /\ it.max_depth \in 1..MaxArg

\* max_depth was clamped up to a min_depth set before
C40_WitnessRaised ==
    /\ last.op = "max_depth" /\ last.arg < it.max_depth
    /\ it.min_depth = it.max_depth

============================================================================
